---- MODULE Spec2Model ----
(***************************************************************************)
(* codegraph: the dependency-graph builder of                              *)
(* src/workflows/scripts/codegraph/codegraph.py.                           *)
(*                                                                         *)
(* The model keeps Python's strings as strings.  A source file is a        *)
(* sequence of lines and a line is the sequence of regex matches the       *)
(* extractors find on it, in the order of the text.  Every extractor       *)
(* is translated block by block, in the order of its code.                 *)
(***************************************************************************)
EXTENDS Integers, Sequences, FiniteSets, TLC

VARIABLES
    files,      \* build_graph: the discovered files, sorted, with their content
    graph,      \* the CodeGraph under construction
    pc,         \* position in the pipeline
    idx,        \* build_graph: index of the next file of the loop
    out,        \* export_json's result of this run
    run,        \* number of the current run of the analyzer
    prevOut,    \* export_json's result of the previous run
    history     \* the add_node calls made so far (history of the inputs)

vars == <<files, graph, pc, idx, out, run, prevOut, history>>

-----------------------------------------------------------------------------
(* Python str methods, on strings.                                         *)

Ch(s, i) == SubSeq(s, i, i)

\* str.startswith
StartsWith(s, p) == Len(p) <= Len(s) /\ SubSeq(s, 1, Len(p)) = p

\* str.endswith
EndsWith(s, p) == Len(p) <= Len(s) /\ SubSeq(s, Len(s) - Len(p) + 1, Len(s)) = p

\* the `in` operator on two strings
Contains(s, p) == \E i \in 1..(Len(s) - Len(p) + 1) : SubSeq(s, i, i + Len(p) - 1) = p

\* str.replace(old, new): every non-overlapping occurrence, left to right
RECURSIVE Replace(_, _, _)
Replace(s, old, new) ==
    IF Len(s) < Len(old) THEN s
    ELSE IF StartsWith(s, old)
         THEN new \o Replace(SubSeq(s, Len(old) + 1, Len(s)), old, new)
         ELSE Ch(s, 1) \o Replace(SubSeq(s, 2, Len(s)), old, new)

\* str.split(sep) for a one-character separator
RECURSIVE SplitFrom(_, _, _, _)
SplitFrom(s, sep, i, cur) ==
    IF i > Len(s) THEN <<cur>>
    ELSE IF Ch(s, i) = sep
         THEN <<cur>> \o SplitFrom(s, sep, i + 1, "")
         ELSE SplitFrom(s, sep, i + 1, cur \o Ch(s, i))

Split(s, sep) == SplitFrom(s, sep, 1, "")

\* str.split(sep, maxsplit)
RECURSIVE SplitMax(_, _, _)
SplitMax(s, sep, n) ==
    IF n = 0 \/ ~Contains(s, sep) THEN <<s>>
    ELSE LET k == CHOOSE i \in 1..Len(s) :
                      Ch(s, i) = sep /\ \A j \in 1..(i - 1) : Ch(s, j) # sep
         IN  <<SubSeq(s, 1, k - 1)>> \o SplitMax(SubSeq(s, k + 1, Len(s)), sep, n - 1)

\* str.rstrip(ch)
RECURSIVE RStrip(_, _)
RStrip(s, ch) ==
    IF Len(s) > 0 /\ Ch(s, Len(s)) = ch THEN RStrip(SubSeq(s, 1, Len(s) - 1), ch) ELSE s

UpperChars == "ABCDEFGHIJKLMNOPQRSTUVWXYZ"
LowerChars == "abcdefghijklmnopqrstuvwxyz"
DigitChars == "0123456789"

InChars(c, chars) == \E i \in 1..Len(chars) : Ch(chars, i) = c

LowerCh(c) ==
    IF InChars(c, UpperChars)
    THEN Ch(LowerChars, CHOOSE i \in 1..Len(UpperChars) : Ch(UpperChars, i) = c)
    ELSE c

\* str.lower
RECURSIVE Lower(_)
Lower(s) == IF s = "" THEN "" ELSE LowerCh(Ch(s, 1)) \o Lower(SubSeq(s, 2, Len(s)))

\* the regex class \w
IsWordChar(c) ==
    InChars(c, UpperChars) \/ InChars(c, LowerChars) \/ InChars(c, DigitChars) \/ c = "_"

-----------------------------------------------------------------------------
(* Data model.  A metadata dict is a set of <<key, value>> pairs; the      *)
(* nodes dict is the sequence of its values in insertion order (a Python   *)
(* dict iterates in insertion order), looked up by id.                     *)

NoMeta == {}

Node(id, file, name, node_type, language, line, metadata) ==
    [id |-> id, file |-> file, name |-> name, node_type |-> node_type,
     language |-> language, line |-> line, metadata |-> metadata]

Edge(source, target, edge_type, file, line, metadata) ==
    [source |-> source, target |-> target, edge_type |-> edge_type,
     file |-> file, line |-> line, metadata |-> metadata]

Bridge(bridge_type, key, producers, consumers) ==
    [bridge_type |-> bridge_type, key |-> key,
     producers |-> producers, consumers |-> consumers]

\* dict.get(key, default) on a metadata dict
MetaGet(md, key, default) ==
    IF \E kv \in md : kv[1] = key
    THEN (CHOOSE kv \in md : kv[1] = key)[2]
    ELSE default

\* CodeGraph.__init__
EmptyGraph ==
    [nodes |-> <<>>, edges |-> <<>>, bridges |-> <<>>,
     adjacency |-> <<>>, reverse_adj |-> <<>>]

NodeIds(g) == {g.nodes[i].id : i \in 1..Len(g.nodes)}

\* `id in self.nodes`
HasNode(g, id) == id \in NodeIds(g)

\* self.nodes[id], for an id that is present
NodeAt(g, id) == g.nodes[CHOOSE i \in 1..Len(g.nodes) : g.nodes[i].id = id]

\* defaultdict(list): d[key].append(x)
AppendAt(d, key, x) ==
    IF key \in DOMAIN d
    THEN [d EXCEPT ![key] = Append(@, x)]
    ELSE d @@ (key :> <<x>>)

\* dict.get(key, [])
ListAt(d, key) == IF key \in DOMAIN d THEN d[key] ELSE <<>>

\* CodeGraph.add_node with the membership test left out
add_node_overwrite(g, node) ==
    IF HasNode(g, node.id)
    THEN [g EXCEPT !.nodes =
             [i \in 1..Len(g.nodes) |->
                 IF g.nodes[i].id = node.id THEN node ELSE g.nodes[i]]]
    ELSE [g EXCEPT !.nodes = Append(g.nodes, node)]

\* CodeGraph.add_node
add_node(g, node) ==
    IF ~HasNode(g, node.id)
    THEN [g EXCEPT !.nodes = Append(g.nodes, node)]
    ELSE g

\* CodeGraph.add_edge that indexes the edge under its source in both maps
add_edge_same_key(g, edge) ==
    [g EXCEPT !.edges = Append(g.edges, edge),
              !.adjacency = AppendAt(g.adjacency, edge.source, edge),
              !.reverse_adj = AppendAt(g.reverse_adj, edge.source, edge)]

\* CodeGraph.add_edge
add_edge(g, edge) ==
    [g EXCEPT !.edges = Append(g.edges, edge),
              !.adjacency = AppendAt(g.adjacency, edge.source, edge),
              !.reverse_adj = AppendAt(g.reverse_adj, edge.target, edge)]

\* CodeGraph.add_bridge
add_bridge(g, bridge) == [g EXCEPT !.bridges = Append(g.bridges, bridge)]

\* CodeGraph.get_node: the node, or None as the empty set
get_node(g, id) == IF HasNode(g, id) THEN {NodeAt(g, id)} ELSE {}

-----------------------------------------------------------------------------
(* Paths: pathlib.Path and os.path on relative POSIX paths.                *)

Last(s) == s[Len(s)]

\* str.join
RECURSIVE JoinStr(_, _)
JoinStr(parts, sep) ==
    IF parts = <<>> THEN ""
    ELSE IF Len(parts) = 1 THEN parts[1]
    ELSE parts[1] \o sep \o JoinStr(Tail(parts), sep)

\* Path.name
PathName(p) == Last(Split(p, "/"))

\* Path.suffix: from the last dot of the name, unless that dot leads the name
PathSuffix(p) ==
    LET name == PathName(p)
        dots == {i \in 2..Len(name) : Ch(name, i) = "."}
    IN  IF dots = {} \/ EndsWith(name, ".") THEN ""
        ELSE LET k == CHOOSE i \in dots : \A j \in dots : j <= i
             IN  SubSeq(name, k, Len(name))

\* str(Path.parent)
PathParent(p) ==
    LET parts == Split(p, "/")
    IN  IF Len(parts) <= 1 THEN "." ELSE JoinStr(SubSeq(parts, 1, Len(parts) - 1), "/")

\* os.path.join(a, b)
PathJoin(a, b) ==
    IF StartsWith(b, "/") THEN b
    ELSE IF a = "" \/ EndsWith(a, "/") THEN a \o b
    ELSE a \o "/" \o b

\* os.path.normpath: the component stack of a relative path
RECURSIVE NormParts(_, _)
NormParts(parts, acc) ==
    IF parts = <<>> THEN acc
    ELSE LET c == Head(parts)
         IN  IF c = "" \/ c = "." THEN NormParts(Tail(parts), acc)
             ELSE IF c = ".." /\ acc # <<>> /\ Last(acc) # ".."
                  THEN NormParts(Tail(parts), SubSeq(acc, 1, Len(acc) - 1))
                  ELSE NormParts(Tail(parts), Append(acc, c))

\* os.path.normpath on a relative path
Normpath(p) ==
    LET parts == NormParts(Split(p, "/"), <<>>)
    IN  IF parts = <<>> THEN "." ELSE JoinStr(parts, "/")

\* resolve_js_import
resolve_js_import(source_file, import_path) ==
    IF ~StartsWith(import_path, ".")
    THEN LET parts == Split(import_path, "/")
             pkg == IF StartsWith(import_path, "@")
                    THEN JoinStr(SubSeq(parts, 1, IF Len(parts) < 2 THEN Len(parts) ELSE 2), "/")
                    ELSE parts[1]
         IN  "__pkg__/" \o pkg
    ELSE Normpath(PathJoin(PathParent(source_file), import_path))

\* str.lstrip(ch)
RECURSIVE LStrip(_, _)
LStrip(s, ch) ==
    IF Len(s) > 0 /\ Ch(s, 1) = ch THEN LStrip(SubSeq(s, 2, Len(s)), ch) ELSE s

\* Path.parent applied n times
RECURSIVE ParentTimes(_, _)
ParentTimes(p, n) == IF n <= 0 THEN p ELSE ParentTimes(PathParent(p), n - 1)

\* os.path.join(base, *parts)
RECURSIVE PathJoinAll(_, _)
PathJoinAll(base, parts) ==
    IF parts = <<>> THEN base ELSE PathJoinAll(PathJoin(base, Head(parts)), Tail(parts))

\* resolve_python_import
resolve_python_import(source_file, module) ==
    IF StartsWith(module, ".")
    THEN LET stripped == LStrip(module, ".")
             levels == Len(module) - Len(stripped)
             base == ParentTimes(PathParent(source_file), levels - 1)
         IN  Normpath(PathJoinAll(base, Split(stripped, ".")))
    ELSE JoinStr(Split(module, "."), "/")

\* resolve_cpp_include
resolve_cpp_include(source_file, header) ==
    Normpath(PathJoin(PathParent(source_file), header))

-----------------------------------------------------------------------------
(* Source text.  A line is the sequence of the regex matches on it, in     *)
(* the order of the text: a match is [kind, a, b], kind naming the         *)
(* pattern that matches and a, b its capture groups.  A blank line or a    *)
(* comment line is the empty sequence.                                     *)

Stmt(kind, a, b) == [kind |-> kind, a |-> a, b |-> b]

\* re.finditer / re.findall of one pattern on a line
Matches(line, kind) == SelectSeq(line, LAMBDA m : m.kind = kind)

\* re.match of one pattern at the start of the stripped line
MatchAtStart(line, kind) ==
    IF line # <<>> /\ line[1].kind = kind THEN <<line[1]>> ELSE <<>>

RECURSIVE Concat(_)
Concat(ss) == IF ss = <<>> THEN <<>> ELSE Head(ss) \o Concat(Tail(ss))

\* the graph calls of a loop `for m in ms: F(m)`, in order
ForEach(ms, F(_)) == Concat([i \in 1..Len(ms) |-> F(ms[i])])

AddNode(n) == <<"node", n>>
AddEdge(e) == <<"edge", e>>

\* the add_node and add_edge calls of an extractor, applied in order
RECURSIVE ApplyOps(_, _)
ApplyOps(g, ops) ==
    IF ops = <<>> THEN g
    ELSE ApplyOps(IF Head(ops)[1] = "node" THEN add_node(g, Head(ops)[2])
                                          ELSE add_edge(g, Head(ops)[2]),
                  Tail(ops))

UpperCh(c) ==
    IF InChars(c, LowerChars)
    THEN Ch(UpperChars, CHOOSE i \in 1..Len(LowerChars) : Ch(LowerChars, i) = c)
    ELSE c

\* str.upper
RECURSIVE Upper(_)
Upper(s) == IF s = "" THEN "" ELSE UpperCh(Ch(s, 1)) \o Upper(SubSeq(s, 2, Len(s)))

\* str.strip
RECURSIVE Strip(_)
Strip(s) ==
    IF Len(s) > 0 /\ Ch(s, 1) = " " THEN Strip(SubSeq(s, 2, Len(s)))
    ELSE IF Len(s) > 0 /\ Ch(s, Len(s)) = " " THEN Strip(SubSeq(s, 1, Len(s) - 1))
    ELSE s

\* str.split(sep)[0]
BeforeFirst(s, sep) ==
    IF ~Contains(s, sep) THEN s
    ELSE LET k == CHOOSE i \in 1..Len(s) :
                      /\ i + Len(sep) - 1 <= Len(s)
                      /\ SubSeq(s, i, i + Len(sep) - 1) = sep
                      /\ \A j \in 1..(i - 1) : SubSeq(s, j, j + Len(sep) - 1) # sep
         IN  SubSeq(s, 1, k - 1)

\* parse_javascript, `for event in ws_listen`
js_ws_listen(m, relp, lang, line_num) ==
    <<AddNode(Node("ws:" \o m.a, relp, "ws:" \o m.a, "event", lang, 0, NoMeta)),
      AddEdge(Edge("ws:" \o m.a, "file:" \o relp, "subscribes", relp, line_num, NoMeta))>>

\* `for topic in mqtt_sub` without its add_node call
js_mqtt_sub_edge_only(m, relp, lang, line_num) ==
    <<AddEdge(Edge("mqtt:" \o m.a, "file:" \o relp, "subscribes", relp, line_num, NoMeta))>>

\* parse_javascript, `for topic in mqtt_sub`
js_mqtt_sub(m, relp, lang, line_num) ==
    <<AddNode(Node("mqtt:" \o m.a, relp, "mqtt:" \o m.a, "topic", lang, 0, NoMeta)),
      AddEdge(Edge("mqtt:" \o m.a, "file:" \o relp, "subscribes", relp, line_num, NoMeta))>>

\* parse_javascript, the body of the loop for one line
js_line(line, relp, lang, line_num) ==
    LET file_node_id == "file:" \o relp
        import(m) ==
            <<AddEdge(Edge(file_node_id, "file:" \o resolve_js_import(relp, m.a),
                           "imports", relp, line_num, {<<"raw", m.a>>}))>>
        export_name(name) ==
            IF name # ""
            THEN <<AddNode(Node("export:" \o relp \o ":" \o name, relp, name,
                                "function", lang, line_num, NoMeta)),
                   AddEdge(Edge(file_node_id, "export:" \o relp \o ":" \o name,
                                "exports", relp, line_num, NoMeta))>>
            ELSE <<>>
        export(m) ==
            LET raw == Split(m.a, ",")
                names == [i \in 1..Len(raw) |-> Strip(BeforeFirst(Strip(raw[i]), " as "))]
            IN  ForEach(names, export_name)
        route(m) ==
            LET method == Upper(m.a)
                endpoint_id == "http:" \o method \o ":" \o m.b
            IN  <<AddNode(Node(endpoint_id, relp, method \o " " \o m.b, "endpoint", lang,
                               line_num, {<<"method", method>>, <<"path", m.b>>})),
                  AddEdge(Edge(file_node_id, endpoint_id, "defines", relp, line_num, NoMeta))>>
        api_call(method, path) ==
            <<AddEdge(Edge(file_node_id, "http:" \o method \o ":" \o path, "fetches", relp,
                           line_num, {<<"method", method>>, <<"path", path>>}))>>
        fetch(m) == api_call("GET", m.a)
        client(m) == api_call(Upper(m.a), m.b)
        ws_emit(m) ==
            <<AddNode(Node("ws:" \o m.a, relp, "ws:" \o m.a, "event", lang, line_num, NoMeta)),
              AddEdge(Edge(file_node_id, "ws:" \o m.a, "emits", relp, line_num, NoMeta))>>
        ws_listen(m) == js_ws_listen(m, relp, lang, line_num)
        mqtt_pub(m) ==
            <<AddNode(Node("mqtt:" \o m.a, relp, "mqtt:" \o m.a, "topic", lang, line_num, NoMeta)),
              AddEdge(Edge(file_node_id, "mqtt:" \o m.a, "publishes", relp, line_num, NoMeta))>>
        mqtt_sub(m) == js_mqtt_sub(m, relp, lang, line_num)
        env(m) ==
            <<AddNode(Node("env:" \o m.a, relp, m.a, "variable", "config", 0, NoMeta)),
              AddEdge(Edge(file_node_id, "env:" \o m.a, "env_uses", relp, line_num, NoMeta))>>
    IN  ForEach(Matches(line, "js_import_from"), import)
        \o ForEach(Matches(line, "js_import_bare"), import)
        \o ForEach(Matches(line, "js_require"), import)
        \o ForEach(Matches(line, "js_import_call"), import)
        \o ForEach(Matches(line, "js_export_decl"), export)
        \o ForEach(Matches(line, "js_export_list"), export)
        \o ForEach(Matches(line, "js_route"), route)
        \o ForEach(Matches(line, "js_fetch"), fetch)
        \o ForEach(Matches(line, "js_axios"), client)
        \o ForEach(Matches(line, "js_api"), client)
        \o ForEach(Matches(line, "js_ws_emit"), ws_emit)
        \o ForEach(Matches(line, "js_ws_on"), ws_listen)
        \o ForEach(Matches(line, "js_publish"), mqtt_pub)
        \o ForEach(Matches(line, "js_subscribe"), mqtt_sub)
        \o ForEach(Matches(line, "js_env_dot"), env)
        \o ForEach(Matches(line, "js_env_index"), env)
        \o ForEach(Matches(line, "js_env_meta"), env)

\* the loop `for line_num, line in enumerate(content.splitlines(), 1)`
LinesOps(lines, LineOps(_, _)) ==
    Concat([i \in 1..Len(lines) |-> LineOps(lines[i], i)])

\* parse_javascript
parse_javascript(fpath, content, relp, g) ==
    LET lang == IF PathSuffix(fpath) \in {".ts", ".tsx"} THEN "ts" ELSE "js"
        file_node == Node("file:" \o relp, relp, PathName(fpath), "file", lang, 0, NoMeta)
    IN  ApplyOps(add_node(g, file_node),
                 LinesOps(content, LAMBDA line, n : js_line(line, relp, lang, n)))

\* parse_python, the body of the loop for one line
py_line(line, relp, line_num) ==
    LET file_node_id == "file:" \o relp
        import(m) ==
            <<AddEdge(Edge(file_node_id, "file:" \o resolve_python_import(relp, m.a),
                           "imports", relp, line_num, {<<"module", m.a>>}))>>
        mqtt_pub(m) ==
            <<AddNode(Node("mqtt:" \o m.a, relp, "mqtt:" \o m.a, "topic", "python", line_num,
                           NoMeta)),
              AddEdge(Edge(file_node_id, "mqtt:" \o m.a, "publishes", relp, line_num, NoMeta))>>
        mqtt_sub(m) ==
            <<AddNode(Node("mqtt:" \o m.a, relp, "mqtt:" \o m.a, "topic", "python", 0, NoMeta)),
              AddEdge(Edge("mqtt:" \o m.a, file_node_id, "subscribes", relp, line_num, NoMeta))>>
        serial_node == Node("serial:connection", relp, "serial", "event", "python", 0, NoMeta)
        serial_read ==
            IF Matches(line, "py_serial_read") # <<>>
            THEN <<AddNode(serial_node),
                   AddEdge(Edge("serial:connection", file_node_id, "serial_read", relp,
                                line_num, NoMeta))>>
            ELSE <<>>
        serial_write ==
            IF Matches(line, "py_serial_write") # <<>>
            THEN <<AddNode(serial_node),
                   AddEdge(Edge(file_node_id, "serial:connection", "serial_write", relp,
                                line_num, NoMeta))>>
            ELSE <<>>
        http(m) ==
            <<AddEdge(Edge(file_node_id, "http:" \o Upper(m.a) \o ":" \o m.b, "fetches", relp,
                           line_num, NoMeta))>>
        route(m) ==
            <<AddNode(Node("http:GET:" \o m.a, relp, "GET " \o m.a, "endpoint", "python",
                           line_num, NoMeta)),
              AddEdge(Edge(file_node_id, "http:GET:" \o m.a, "defines", relp, line_num,
                           NoMeta))>>
        env(m) ==
            <<AddNode(Node("env:" \o m.a, relp, m.a, "variable", "config", 0, NoMeta)),
              AddEdge(Edge(file_node_id, "env:" \o m.a, "env_uses", relp, line_num, NoMeta))>>
    IN  ForEach(MatchAtStart(line, "py_from_import"), import)
        \o ForEach(MatchAtStart(line, "py_import"), import)
        \o ForEach(MatchAtStart(line, "py_def"),
                   LAMBDA m :
                   <<AddNode(Node("func:" \o relp \o ":" \o m.a, relp, m.a, "function",
                                  "python", line_num, NoMeta)),
                     AddEdge(Edge(file_node_id, "func:" \o relp \o ":" \o m.a, "defines",
                                  relp, line_num, NoMeta))>>)
        \o ForEach(MatchAtStart(line, "py_class"),
                   LAMBDA m :
                   <<AddNode(Node("class:" \o relp \o ":" \o m.a, relp, m.a, "class",
                                  "python", line_num, NoMeta)),
                     AddEdge(Edge(file_node_id, "class:" \o relp \o ":" \o m.a, "defines",
                                  relp, line_num, NoMeta))>>)
        \o ForEach(Matches(line, "py_publish"), mqtt_pub)
        \o ForEach(Matches(line, "py_subscribe"), mqtt_sub)
        \o ForEach(Matches(line, "py_callback_add"), mqtt_sub)
        \o serial_read
        \o serial_write
        \* http_pats[0] matches a plain string literal, http_pats[1] (f?) a plain
        \* one and an f-string
        \o ForEach(Matches(line, "py_requests"), http)
        \o ForEach(SelectSeq(line, LAMBDA m : m.kind \in {"py_requests", "py_requests_f"}), http)
        \o ForEach(Matches(line, "py_route"), route)
        \o ForEach(Matches(line, "py_environ"), env)
        \o ForEach(Matches(line, "py_getenv"), env)

\* parse_python
parse_python(fpath, content, relp, g) ==
    LET file_node == Node("file:" \o relp, relp, PathName(fpath), "file", "python", 0, NoMeta)
    IN  ApplyOps(add_node(g, file_node),
                 LinesOps(content, LAMBDA line, n : py_line(line, relp, n)))

\* `'"' in line`: the patterns whose match holds a double quote
CppHasQuote(line) ==
    \E i \in 1..Len(line) :
        \/ line[i].kind \in {"cpp_publish", "cpp_subscribe", "cpp_http_begin"}
        \/ line[i].kind = "cpp_include" /\ line[i].b = "quoted"

CppKeywords == {"if", "while", "for", "switch", "return"}

\* parse_cpp_arduino, the body of the loop for one line
cpp_line(line, relp, lang, line_num) ==
    LET file_node_id == "file:" \o relp
        include(m) ==
            IF CppHasQuote(line)
            THEN <<AddEdge(Edge(file_node_id, "file:" \o resolve_cpp_include(relp, m.a),
                                "includes", relp, line_num, NoMeta))>>
            ELSE <<AddNode(Node("lib:" \o m.a, "", m.a, "file", "cpp", 0, NoMeta)),
                   AddEdge(Edge(file_node_id, "lib:" \o m.a, "includes", relp, line_num,
                                NoMeta))>>
        func_def(m) ==
            IF m.a \notin CppKeywords
            THEN <<AddNode(Node("func:" \o relp \o ":" \o m.a, relp, m.a, "function", lang,
                                line_num, NoMeta)),
                   AddEdge(Edge(file_node_id, "func:" \o relp \o ":" \o m.a, "defines", relp,
                                line_num, NoMeta))>>
            ELSE <<>>
        mqtt_pub(m) ==
            <<AddNode(Node("mqtt:" \o m.a, relp, "mqtt:" \o m.a, "topic", lang, line_num, NoMeta)),
              AddEdge(Edge(file_node_id, "mqtt:" \o m.a, "publishes", relp, line_num, NoMeta))>>
        mqtt_sub(m) ==
            <<AddNode(Node("mqtt:" \o m.a, relp, "mqtt:" \o m.a, "topic", lang, 0, NoMeta)),
              AddEdge(Edge("mqtt:" \o m.a, file_node_id, "subscribes", relp, line_num, NoMeta))>>
        serial_node == Node("serial:connection", relp, "serial", "event", lang, 0, NoMeta)
        serial_out ==
            IF Matches(line, "cpp_serial_out") # <<>>
            THEN <<AddNode(serial_node),
                   AddEdge(Edge(file_node_id, "serial:connection", "serial_write", relp,
                                line_num, NoMeta))>>
            ELSE <<>>
        serial_in ==
            IF Matches(line, "cpp_serial_in") # <<>>
            THEN <<AddNode(serial_node),
                   AddEdge(Edge("serial:connection", file_node_id, "serial_read", relp,
                                line_num, NoMeta))>>
            ELSE <<>>
        http_begin(m) ==
            <<AddEdge(Edge(file_node_id, "http:GET:" \o m.a, "fetches", relp, line_num,
                           NoMeta))>>
    IN  ForEach(MatchAtStart(line, "cpp_include"), include)
        \o ForEach(MatchAtStart(line, "cpp_func"), func_def)
        \o ForEach(Matches(line, "cpp_publish"), mqtt_pub)
        \o ForEach(Matches(line, "cpp_subscribe"), mqtt_sub)
        \o serial_out
        \o serial_in
        \o ForEach(Matches(line, "cpp_http_begin"), http_begin)

\* parse_cpp_arduino
parse_cpp_arduino(fpath, content, relp, g) ==
    LET lang == IF PathSuffix(fpath) = ".ino" THEN "arduino" ELSE "cpp"
        file_node == Node("file:" \o relp, relp, PathName(fpath), "file", lang, 0, NoMeta)
    IN  ApplyOps(add_node(g, file_node),
                 LinesOps(content, LAMBDA line, n : cpp_line(line, relp, lang, n)))

\* parse_env_file, the body of the loop for one line
env_line(line, relp, line_num) ==
    ForEach(MatchAtStart(line, "env_assign"),
            LAMBDA m :
            <<AddNode(Node("env:" \o m.a, relp, m.a, "variable", "config", line_num, NoMeta)),
              AddEdge(Edge("file:" \o relp, "env:" \o m.a, "env_defines", relp, line_num,
                           NoMeta))>>)

\* parse_env_file
parse_env_file(fpath, content, relp, g) ==
    LET file_node == Node("file:" \o relp, relp, PathName(fpath), "file", "config", 0, NoMeta)
    IN  ApplyOps(add_node(g, file_node),
                 LinesOps(content, LAMBDA line, n : env_line(line, relp, n)))

\* A package.json text: json.loads fails (valid = FALSE) or gives the three
\* mappings the extractor reads, each the sequence of its items in order.
Json(valid, dependencies, devDependencies, scripts) ==
    [valid |-> valid, dependencies |-> dependencies,
     devDependencies |-> devDependencies, scripts |-> scripts]

NoJson == Json(FALSE, <<>>, <<>>, <<>>)

\* parse_config_files, lines 689-702: what a package.json that parses adds
package_ops(json, relp) ==
    LET file_node_id == "file:" \o relp
        dep(dep_type, dep_name) ==
            <<AddNode(Node("pkg:" \o dep_name, "", dep_name, "file", "config", 0, NoMeta)),
              AddEdge(Edge(file_node_id, "pkg:" \o dep_name, "imports", relp, 0,
                           {<<"type", dep_type>>}))>>
        script(s) ==
            <<AddNode(Node("script:" \o relp \o ":" \o s[1], relp, "npm:" \o s[1], "function",
                           "config", 0, {<<"command", s[2]>>}))>>
    IN  ForEach(json.dependencies, LAMBDA d : dep("dependencies", d))
        \o ForEach(json.devDependencies, LAMBDA d : dep("devDependencies", d))
        \o ForEach(json.scripts, script)

\* parse_config_files with the file node added after json.loads, inside the try
parse_config_files_node_in_try(fpath, json, relp, g) ==
    LET file_node == Node("file:" \o relp, relp, PathName(fpath), "file", "config", 0, NoMeta)
    IN  IF PathName(fpath) = "package.json"
        THEN IF json.valid
             THEN ApplyOps(add_node(g, file_node), package_ops(json, relp))
             ELSE g
        ELSE add_node(g, file_node)

\* parse_config_files
parse_config_files(fpath, json, relp, g) ==
    LET file_node == Node("file:" \o relp, relp, PathName(fpath), "file", "config", 0, NoMeta)
    IN  IF PathName(fpath) = "package.json" /\ json.valid
        THEN ApplyOps(add_node(g, file_node), package_ops(json, relp))
        ELSE add_node(g, file_node)

-----------------------------------------------------------------------------
(* Bridge detection.                                                       *)

\* mqtt_topic_matches, the loop from segment i on
\* the loop with the length test made before the '#' test
RECURSIVE MatchFrom_length_first(_, _, _)
MatchFrom_length_first(pat_parts, top_parts, i) ==
    IF i > Len(pat_parts) THEN Len(pat_parts) = Len(top_parts)
    ELSE IF i > Len(top_parts) THEN FALSE
    ELSE IF pat_parts[i] = "#" THEN TRUE
    ELSE IF pat_parts[i] = "+" THEN MatchFrom_length_first(pat_parts, top_parts, i + 1)
    ELSE IF pat_parts[i] # top_parts[i] THEN FALSE
    ELSE MatchFrom_length_first(pat_parts, top_parts, i + 1)

RECURSIVE MatchFrom(_, _, _)
MatchFrom(pat_parts, top_parts, i) ==
    IF i > Len(pat_parts) THEN Len(pat_parts) = Len(top_parts)
    ELSE IF pat_parts[i] = "#" THEN TRUE
    ELSE IF i > Len(top_parts) THEN FALSE
    ELSE IF pat_parts[i] = "+" THEN MatchFrom(pat_parts, top_parts, i + 1)
    ELSE IF pat_parts[i] # top_parts[i] THEN FALSE
    ELSE MatchFrom(pat_parts, top_parts, i + 1)

\* mqtt_topic_matches
mqtt_topic_matches(pattern, topic) ==
    IF pattern = topic THEN TRUE
    ELSE MatchFrom(Split(pattern, "/"), Split(topic, "/"), 1)

\* length of the longest run of \w characters at the start of s
RECURSIVE WordRun(_)
WordRun(s) ==
    IF Len(s) > 0 /\ IsWordChar(Ch(s, 1)) THEN 1 + WordRun(SubSeq(s, 2, Len(s))) ELSE 0

\* re.sub(r':(\w+)', '{param}', s)
RECURSIVE SubColonParam(_)
SubColonParam(s) ==
    IF s = "" THEN ""
    ELSE LET rest == SubSeq(s, 2, Len(s))
         IN  IF Ch(s, 1) = ":" /\ WordRun(rest) > 0
             THEN "{param}" \o SubColonParam(SubSeq(rest, WordRun(rest) + 1, Len(rest)))
             ELSE Ch(s, 1) \o SubColonParam(rest)

\* re.sub(open + r'[^}]+\}', '{param}', s) for open = '${' or '{'
RECURSIVE SubBraces(_, _)
SubBraces(s, open) ==
    IF s = "" THEN ""
    ELSE LET body == SubSeq(s, Len(open) + 1, Len(s))
             closes == {j \in 1..Len(body) : Ch(body, j) = "}"}
             first == CHOOSE j \in closes : \A k \in closes : j <= k
         IN  IF StartsWith(s, open) /\ closes # {} /\ first >= 2
             THEN "{param}" \o SubBraces(SubSeq(body, first + 1, Len(body)), open)
             ELSE Ch(s, 1) \o SubBraces(SubSeq(s, 2, Len(s)), open)

\* normalize_http_path with str.strip('/') in place of str.rstrip('/')
normalize_http_path_strip_both(path) ==
    Lower(RStrip(LStrip(SubBraces(SubBraces(SubColonParam(path), "${"), "{"), "/"), "/"))

\* normalize_http_path
normalize_http_path(path) ==
    Lower(RStrip(SubBraces(SubBraces(SubColonParam(path), "${"), "{"), "/"))

RECURSIVE FoldL(_, _, _)
FoldL(F(_, _), acc, s) == IF s = <<>> THEN acc ELSE FoldL(F, F(acc, Head(s)), Tail(s))

\* defaultdict(list), with the insertion order of its keys
EmptyTable == [keys |-> <<>>, at |-> <<>>]

TableAppend(t, key, x) ==
    [keys |-> IF key \in DOMAIN t.at THEN t.keys ELSE Append(t.keys, key),
     at |-> AppendAt(t.at, key, x)]

TableGet(t, key) == ListAt(t.at, key)

TableKeys(t) == DOMAIN t.at

Range(s) == {s[i] : i \in 1..Len(s)}

\* the orders in which a Python set of strings can be iterated: string hashes
\* differ from one process to the next, so every order is possible
Perms(S) == {p \in [1..Cardinality(S) -> S] : \A a \in S : \E i \in DOMAIN p : p[i] = a}

Record(file, line, language, action) ==
    [file |-> file, line |-> line, language |-> language, action |-> action]

\* node = graph.nodes.get(f"file:{edge.file}"); lang = node.language if node else "unknown"
FileLang(g, file) ==
    IF HasNode(g, "file:" \o file) THEN NodeAt(g, "file:" \o file).language ELSE "unknown"

\* the record of a subscribes edge taken from the source node, the topic
TargetRecord_of_source(g, edge, action) ==
    IF HasNode(g, edge.source)
    THEN Record(NodeAt(g, edge.source).file, edge.line, NodeAt(g, edge.source).language, action)
    ELSE Record(edge.source, edge.line, "unknown", action)

\* the record of a subscribes edge: the file and language of the target node
TargetRecord(g, edge, action) ==
    IF HasNode(g, edge.target)
    THEN Record(NodeAt(g, edge.target).file, edge.line, NodeAt(g, edge.target).language, action)
    ELSE Record(edge.target, edge.line, "unknown", action)

Files(records) == {records[i].file : i \in 1..Len(records)}
Languages(records) == {records[i].language : i \in 1..Len(records)}

\* detect_bridges: the two MQTT tables
mqtt_tables(g) ==
    FoldL(LAMBDA t, edge :
            IF edge.edge_type = "publishes"
            THEN [t EXCEPT !.producers =
                    TableAppend(@, Replace(edge.target, "mqtt:", ""),
                                Record(edge.file, edge.line, FileLang(g, edge.file), "publish"))]
            ELSE IF /\ edge.edge_type = "subscribes"
                    /\ HasNode(g, edge.source)
                    /\ NodeAt(g, edge.source).node_type = "topic"
            THEN [t EXCEPT !.consumers =
                    TableAppend(@, Replace(edge.source, "mqtt:", ""),
                                TargetRecord(g, edge, "subscribe"))]
            ELSE t,
          [producers |-> EmptyTable, consumers |-> EmptyTable], g.edges)

\* all_topics
all_topics(g) == TableKeys(mqtt_tables(g).producers) \cup TableKeys(mqtt_tables(g).consumers)

\* the consumers of a topic without the wildcard loop
mqtt_cons_exact_only(t, topic) == TableGet(t.consumers, topic)

\* the consumers of a topic: its own, then those of every other subscribed
\* pattern that matches it, in the order of the consumers table
mqtt_cons(t, topic) ==
    FoldL(LAMBDA cons, sub_topic :
            IF sub_topic # topic /\ mqtt_topic_matches(sub_topic, topic)
            THEN cons \o t.consumers.at[sub_topic]
            ELSE cons,
          TableGet(t.consumers, topic), t.consumers.keys)

\* the producers of a topic with the wildcard loop of the consumers
mqtt_prods_wildcard(t, topic) ==
    FoldL(LAMBDA prods, pub_topic :
            IF pub_topic # topic /\ mqtt_topic_matches(pub_topic, topic)
            THEN prods \o t.producers.at[pub_topic]
            ELSE prods,
          TableGet(t.producers, topic), t.producers.keys)

\* prods = mqtt_producers.get(topic, [])
mqtt_prods(t, topic) == TableGet(t.producers, topic)

\* `if len(all_files) > 1 or len(all_langs) > 1`
mqtt_spans(prods, cons) ==
    \/ Cardinality(Files(prods) \cup Files(cons)) > 1
    \/ Cardinality(Languages(prods) \cup Languages(cons)) > 1

\* the MQTT loop over the keys of both tables as a list, not as a set
mqtt_bridges_keys_list(g, order) ==
    LET t == mqtt_tables(g)
    IN  FoldL(LAMBDA gr, topic :
                LET prods == mqtt_prods(t, topic)
                    cons == mqtt_cons(t, topic)
                IN  IF (prods # <<>> \/ cons # <<>>) /\ mqtt_spans(prods, cons)
                    THEN add_bridge(gr, Bridge("mqtt", topic, prods, cons))
                    ELSE gr,
              g, t.producers.keys \o t.consumers.keys)

\* detect_bridges, MQTT: the loop over all_topics in the given order
mqtt_bridges(g, order) ==
    LET t == mqtt_tables(g)
    IN  FoldL(LAMBDA gr, topic :
                LET prods == mqtt_prods(t, topic)
                    cons == mqtt_cons(t, topic)
                IN  IF (prods # <<>> \/ cons # <<>>) /\ mqtt_spans(prods, cons)
                    THEN add_bridge(gr, Bridge("mqtt", topic, prods, cons))
                    ELSE gr,
              g, order)

\* detect_bridges: the two HTTP tables
http_tables(g) ==
    FoldL(LAMBDA t, edge :
            IF edge.edge_type = "defines"
            THEN IF HasNode(g, edge.target) /\ NodeAt(g, edge.target).node_type = "endpoint"
                 THEN LET target == NodeAt(g, edge.target)
                          path == MetaGet(target.metadata, "path", edge.target)
                      IN  [t EXCEPT !.producers =
                             TableAppend(@, normalize_http_path(path),
                                         Record(edge.file, edge.line, FileLang(g, edge.file),
                                                "defines " \o target.name))]
                 ELSE t
            ELSE IF edge.edge_type = "fetches"
            THEN LET path == MetaGet(edge.metadata, "path",
                                     IF Contains(edge.target, ":")
                                     THEN Last(SplitMax(edge.target, ":", 2))
                                     ELSE edge.target)
                 IN  [t EXCEPT !.consumers =
                        TableAppend(@, normalize_http_path(path),
                                    Record(edge.file, edge.line, FileLang(g, edge.file),
                                           "calls " \o path))]
            ELSE t,
          [producers |-> EmptyTable, consumers |-> EmptyTable], g.edges)

http_keys(g) == TableKeys(http_tables(g).producers) \cup TableKeys(http_tables(g).consumers)

\* the HTTP branch as `if defs or calls`
http_bridge_defs_or_calls(gr, path, defs, calls) ==
    IF defs # <<>> \/ calls # <<>>
    THEN add_bridge(gr, Bridge("http", path, defs, calls))
    ELSE gr

\* the HTTP branch with defs alone also emitting a bridge
http_bridge_emit_defs_only(gr, path, defs, calls) ==
    IF defs # <<>>
    THEN add_bridge(gr, Bridge("http", path, defs, calls))
    ELSE IF calls # <<>>
    THEN add_bridge(gr, Bridge("http", "UNMATCHED:" \o path, <<>>, calls))
    ELSE gr

\* `if defs and calls: ... elif calls and not defs: ...`
http_bridge(gr, path, defs, calls) ==
    IF defs # <<>> /\ calls # <<>>
    THEN add_bridge(gr, Bridge("http", path, defs, calls))
    ELSE IF calls # <<>> /\ defs = <<>>
    THEN add_bridge(gr, Bridge("http", "UNMATCHED:" \o path, <<>>, calls))
    ELSE gr

\* detect_bridges, HTTP: the loop over the set of keys in the given order
http_bridges(g, order) ==
    LET t == http_tables(g)
    IN  FoldL(LAMBDA gr, path :
                http_bridge(gr, path, TableGet(t.producers, path), TableGet(t.consumers, path)),
              g, order)

\* detect_bridges: the two WebSocket tables
ws_tables(g) ==
    FoldL(LAMBDA t, edge :
            IF edge.edge_type = "emits"
            THEN [t EXCEPT !.producers =
                    TableAppend(@, Replace(edge.target, "ws:", ""),
                                Record(edge.file, edge.line, FileLang(g, edge.file), "emits"))]
            ELSE IF /\ edge.edge_type = "subscribes"
                    /\ HasNode(g, edge.source)
                    /\ NodeAt(g, edge.source).node_type = "event"
                    /\ StartsWith(NodeAt(g, edge.source).id, "ws:")
            THEN [t EXCEPT !.consumers =
                    TableAppend(@, Replace(edge.source, "ws:", ""),
                                TargetRecord(g, edge, "listens"))]
            ELSE t,
          [producers |-> EmptyTable, consumers |-> EmptyTable], g.edges)

ws_keys(g) == TableKeys(ws_tables(g).producers) \cup TableKeys(ws_tables(g).consumers)

\* detect_bridges, WebSocket: the loop over the set of events in the given order
ws_bridges(g, order) ==
    LET t == ws_tables(g)
    IN  FoldL(LAMBDA gr, event :
                LET emits == TableGet(t.producers, event)
                    listens == TableGet(t.consumers, event)
                IN  IF Cardinality(Files(emits) \cup Files(listens)) > 1
                    THEN add_bridge(gr, Bridge("websocket", event, emits, listens))
                    ELSE gr,
              g, order)

\* detect_bridges, serial
serial_bridges(g) ==
    LET t == FoldL(LAMBDA acc, edge :
                     IF edge.edge_type = "serial_write"
                     THEN [acc EXCEPT !.writers =
                             Append(@, Record(edge.file, edge.line, FileLang(g, edge.file),
                                              "write"))]
                     ELSE IF edge.edge_type = "serial_read"
                     THEN [acc EXCEPT !.readers =
                             Append(@, Record(edge.file, edge.line, FileLang(g, edge.file),
                                              "read"))]
                     ELSE acc,
                   [writers |-> <<>>, readers |-> <<>>], g.edges)
    IN  IF t.writers # <<>> /\ t.readers # <<>>
        THEN add_bridge(g, Bridge("serial", "serial", t.writers, t.readers))
        ELSE g

\* detect_bridges: the two environment-variable tables
env_tables(g) ==
    FoldL(LAMBDA t, edge :
            IF edge.edge_type = "env_defines"
            THEN [t EXCEPT !.producers =
                    TableAppend(@, Replace(edge.target, "env:", ""),
                                Record(edge.file, edge.line, "config", "defines"))]
            ELSE IF edge.edge_type = "env_uses"
            THEN [t EXCEPT !.consumers =
                    TableAppend(@, Replace(edge.target, "env:", ""),
                                Record(edge.file, edge.line, FileLang(g, edge.file), "uses"))]
            ELSE t,
          [producers |-> EmptyTable, consumers |-> EmptyTable], g.edges)

env_keys(g) == TableKeys(env_tables(g).producers) \cup TableKeys(env_tables(g).consumers)

\* the env branch as `else: if len(all_files) > 1`, definers alone included
env_bridge_else_files(gr, var, defs, uses) ==
    IF uses # <<>> /\ defs = <<>>
    THEN add_bridge(gr, Bridge("env", "UNDEFINED:" \o var, <<>>, uses))
    ELSE IF Cardinality(Files(defs) \cup Files(uses)) > 1
    THEN add_bridge(gr, Bridge("env", var, defs, uses))
    ELSE gr

\* `if uses and not defs: ... elif defs and uses: if len(all_files) > 1: ...`
env_bridge(gr, var, defs, uses) ==
    IF uses # <<>> /\ defs = <<>>
    THEN add_bridge(gr, Bridge("env", "UNDEFINED:" \o var, <<>>, uses))
    ELSE IF defs # <<>> /\ uses # <<>>
    THEN IF Cardinality(Files(defs) \cup Files(uses)) > 1
         THEN add_bridge(gr, Bridge("env", var, defs, uses))
         ELSE gr
    ELSE gr

\* detect_bridges, env: the loop over the set of names in the given order
env_bridges(g, order) ==
    LET t == env_tables(g)
    IN  FoldL(LAMBDA gr, var :
                env_bridge(gr, var, TableGet(t.producers, var), TableGet(t.consumers, var)),
              g, order)

\* detect_bridges that also records a node for every bridged MQTT topic
detect_bridges_adds_nodes(g, topics, paths, events, names) ==
    LET d == env_bridges(serial_bridges(ws_bridges(http_bridges(mqtt_bridges(g, topics),
                                                                paths), events)), names)
    IN  FoldL(LAMBDA gr, bridge :
                IF bridge.bridge_type = "mqtt"
                THEN add_node(gr, Node("bridge:" \o bridge.key, "", bridge.key, "bridge",
                                       "", 0, NoMeta))
                ELSE gr,
              d, d.bridges)

\* detect_bridges, given the iteration order of each of its four sets
detect_bridges(g, topics, paths, events, names) ==
    env_bridges(serial_bridges(ws_bridges(http_bridges(mqtt_bridges(g, topics), paths),
                                          events)),
                names)

-----------------------------------------------------------------------------
(* Serialization.                                                          *)

\* the keys of a dict comprehension over a list, in first-occurrence order
RECURSIVE FirstSeen(_, _)
FirstSeen(s, acc) ==
    IF s = <<>> THEN acc
    ELSE FirstSeen(Tail(s), IF Head(s) \in Range(acc) THEN acc ELSE Append(acc, Head(s)))

Count(s, x) == Cardinality({i \in 1..Len(s) : s[i] = x})

\* sorted(items, key=lambda x: -x[1]): stable, by descending count
RECURSIVE SortByCount(_)
SortByCount(items) ==
    IF items = <<>> THEN <<>>
    ELSE LET k == CHOOSE i \in 1..Len(items) :
                      /\ \A j \in 1..Len(items) : items[j][2] <= items[i][2]
                      /\ \A j \in 1..(i - 1) : items[j][2] < items[i][2]
         IN  <<items[k]>> \o SortByCount(SubSeq(items, 1, k - 1) \o SubSeq(items, k + 1, Len(items)))

TypeCounts(types) ==
    SortByCount([i \in 1..Len(FirstSeen(types, <<>>)) |->
                    <<FirstSeen(types, <<>>)[i], Count(types, FirstSeen(types, <<>>)[i])>>])

\* the set {n.language for n in self.nodes.values()}
LanguageSet(g) == {g.nodes[i].language : i \in 1..Len(g.nodes)}

\* CodeGraph.stats, given the iteration order of its set of languages
stats(g, languages) ==
    [nodes |-> Len(g.nodes),
     edges |-> Len(g.edges),
     bridges |-> Len(g.bridges),
     files |-> Cardinality({g.nodes[i].file : i \in 1..Len(g.nodes)} \ {""}),
     languages |-> languages,
     edge_types |-> TypeCounts([i \in 1..Len(g.edges) |-> g.edges[i].edge_type]),
     bridge_types |-> TypeCounts([i \in 1..Len(g.bridges) |-> g.bridges[i].bridge_type])]

\* Node.to_dict: the items left once an empty metadata and a line of 0 are deleted
node_to_dict(n) ==
    {<<"id", n.id>>, <<"file", n.file>>, <<"name", n.name>>, <<"node_type", n.node_type>>,
     <<"language", n.language>>}
    \cup (IF n.line # 0 THEN {<<"line", n.line>>} ELSE {})
    \cup (IF n.metadata # {} THEN {<<"metadata", n.metadata>>} ELSE {})

\* Edge.to_dict
edge_to_dict(e) ==
    {<<"source", e.source>>, <<"target", e.target>>, <<"edge_type", e.edge_type>>}
    \cup (IF e.file # "" THEN {<<"file", e.file>>} ELSE {})
    \cup (IF e.line # 0 THEN {<<"line", e.line>>} ELSE {})
    \cup (IF e.metadata # {} THEN {<<"metadata", e.metadata>>} ELSE {})

\* export_json: the document, its four members in order
export_json(g, languages) ==
    <<stats(g, languages),
      [i \in 1..Len(g.nodes) |-> <<g.nodes[i].id, node_to_dict(g.nodes[i])>>],
      [i \in 1..Len(g.edges) |-> edge_to_dict(g.edges[i])],
      g.bridges>>

NoOut == <<>>

-----------------------------------------------------------------------------
(* The inputs: bounded projects.  A project exercises one family of        *)
(* patterns; its files are those discover_files returns, in sorted order.  *)

MaxLines == 3       \* lines of source text in a project, all files together

File(path, content, json) == [path |-> path, content |-> content, json |-> json]

L1(kind, a, b) == <<Stmt(kind, a, b)>>

Families == {"mqtt", "http", "ws", "env", "serial", "misc"}

\* the files of a project of each family, as sorted(files) orders them
FamilyFiles(fam) ==
    CASE fam = "mqtt" -> <<"app.js", "dev.ino", "srv.py">>
      [] fam = "http" -> <<"app.js", "dev.ino", "srv.py", "web.ts">>
      [] fam = "ws" -> <<"app.js", "srv.py", "web.ts">>
      [] fam = "env" -> <<".env", ".env.local", "app.js", "srv.py">>
      [] fam = "serial" -> <<"dev.ino", "fw/io.cpp", "srv.py">>
      [] fam = "misc" -> <<"app.js", "fw/io.cpp", "package.json", "srv.py">>

\* the lines a file of a project may hold
Lines(fam, path) ==
    CASE fam = "mqtt" /\ path = "app.js" ->
            {L1("js_publish", "s/t", ""), L1("js_subscribe", "s/#", ""),
             L1("js_subscribe", "s/t", "")}
      [] fam = "mqtt" /\ path = "dev.ino" ->
            {L1("cpp_publish", "s/t", ""), L1("cpp_subscribe", "s/+", "")}
      [] fam = "mqtt" /\ path = "srv.py" ->
            {L1("py_publish", "s/#", ""), L1("py_subscribe", "s/+", ""),
             L1("py_callback_add", "s/t", ""),
             <<Stmt("py_subscribe", "s/#", ""), Stmt("py_publish", "s/t", "")>>}
      [] fam = "http" /\ path = "app.js" ->
            {L1("js_route", "get", "/api/x"), L1("js_fetch", "/api/x", ""),
             L1("js_route", "post", "/users/:id")}
      [] fam = "http" /\ path = "dev.ino" ->
            {L1("cpp_http_begin", "http://h:80/api/x", "")}
      [] fam = "http" /\ path = "srv.py" ->
            {L1("py_route", "/api/x", ""), L1("py_route", "/users/<id>", ""),
             L1("py_requests", "get", "http://h:80/api/x"), L1("py_def", "f", "")}
      [] fam = "http" /\ path = "web.ts" ->
            {L1("js_axios", "get", "/API/x/"), L1("js_fetch", "/users/42", ""),
             L1("js_api", "post", "/users/${id}")}
      [] fam = "ws" /\ path = "app.js" ->
            {L1("js_ws_emit", "msg", ""), L1("js_ws_on", "msg", ""),
             L1("js_ws_emit", "news:x", ""),
             <<Stmt("js_ws_on", "evt", ""), Stmt("js_ws_emit", "evt", "")>>}
      [] fam = "ws" /\ path = "srv.py" ->
            {L1("py_serial_read", "read", ""), <<>>}
      [] fam = "ws" /\ path = "web.ts" ->
            {L1("js_ws_emit", "msg", ""), L1("js_ws_on", "msg", ""), L1("js_ws_on", "evt", ""),
             L1("js_ws_on", "news:x", "")}
      [] fam = "env" /\ path = ".env" -> {L1("env_assign", "KEY", "")}
      [] fam = "env" /\ path = ".env.local" ->
            {L1("env_assign", "KEY", ""), L1("env_assign", "PORT", "")}
      [] fam = "env" /\ path = "app.js" ->
            {L1("js_env_dot", "KEY", ""), L1("js_env_index", "DB_URL", ""),
             L1("js_env_meta", "PORT", "")}
      [] fam = "env" /\ path = "srv.py" ->
            {L1("py_getenv", "KEY", ""), L1("py_environ", "DB_URL", "")}
      [] fam = "serial" /\ path = "dev.ino" ->
            {L1("cpp_serial_out", "println", ""), L1("cpp_serial_in", "read", ""),
             <<Stmt("cpp_serial_in", "available", ""), Stmt("cpp_serial_out", "print", "")>>}
      [] fam = "serial" /\ path = "fw/io.cpp" ->
            {L1("cpp_serial_out", "write", ""), L1("cpp_include", "io.h", "quoted")}
      [] fam = "serial" /\ path = "srv.py" ->
            {L1("py_serial_read", "readline", ""), L1("py_serial_write", "write", "")}
      [] fam = "misc" /\ path = "app.js" ->
            {L1("js_import_from", "./lib/util", ""), L1("js_require", "express", ""),
             L1("js_export_list", "a, b as c", ""), L1("js_export_decl", "a", "")}
      [] fam = "misc" /\ path = "fw/io.cpp" ->
            {L1("cpp_include", "WiFi.h", "angle"), L1("cpp_include", "../cfg.h", "quoted"),
             L1("cpp_func", "setup", "")}
      [] fam = "misc" /\ path = "package.json" -> {<<>>}
      [] fam = "misc" /\ path = "srv.py" ->
            {L1("py_from_import", ".util", ""), L1("py_import", "os.path", ""),
             L1("py_class", "App", ""), L1("py_def", "main", "")}

\* the package.json texts of a project
Jsons(path) ==
    IF PathName(path) = "package.json"
    THEN {NoJson, Json(TRUE, <<"express">>, <<"jest">>, <<<<"start", "node app.js">>>>)}
    ELSE {NoJson}

\* the projects over the files fs with at most budget lines of text in all
RECURSIVE ProjectsOver(_, _, _)
ProjectsOver(fam, fs, budget) ==
    IF fs = <<>> THEN {<<>>}
    ELSE UNION {
           {<<File(Head(fs), content, json)>> \o rest :
                content \in [1..k -> Lines(fam, Head(fs))],
                json \in Jsons(Head(fs)),
                rest \in ProjectsOver(fam, Tail(fs), budget - k)} : k \in 0..budget}

Projects == UNION {ProjectsOver(fam, FamilyFiles(fam), MaxLines) : fam \in Families}

-----------------------------------------------------------------------------
(* The pipeline: build_graph, then export_json.                            *)

\* build_graph, the body of the loop for one file
parse_file(f, g) ==
    LET ext == Lower(PathSuffix(f.path))
        fname == PathName(f.path)
    IN  IF f.content = <<>> THEN g
        ELSE IF StartsWith(fname, ".env") THEN parse_env_file(f.path, f.content, f.path, g)
        ELSE IF ext \in {".js", ".jsx", ".mjs", ".cjs", ".ts", ".tsx"}
             THEN parse_javascript(f.path, f.content, f.path, g)
        ELSE IF ext = ".py" THEN parse_python(f.path, f.content, f.path, g)
        ELSE IF ext \in {".cpp", ".c", ".h", ".hpp", ".ino"}
             THEN parse_cpp_arduino(f.path, f.content, f.path, g)
        ELSE IF fname = "package.json" THEN parse_config_files(f.path, f.json, f.path, g)
        ELSE g

TypeOK ==
    /\ pc \in {"parse", "built", "done", "api", "trace", "traced", "aborted",
              "call", "matched", "normalized", "cluster", "clustered"}
    /\ run \in {1, 2}

Init ==
    /\ files \in Projects
    /\ graph = EmptyGraph
    /\ pc = "parse"
    /\ idx = 1
    /\ out = NoOut
    /\ run = 1
    /\ prevOut = NoOut
    /\ history = <<>>

\* build_graph: one iteration of `for fpath in files`
ParseFile ==
    /\ pc = "parse"
    /\ idx <= Len(files)
    /\ graph' = parse_file(files[idx], graph)
    /\ idx' = idx + 1
    /\ UNCHANGED <<files, pc, out, run, prevOut, history>>

\* build_graph: detect_bridges(graph) after the loop, then return
DetectBridges ==
    /\ pc = "parse"
    /\ idx > Len(files)
    /\ \E topics \in Perms(all_topics(graph)), paths \in Perms(http_keys(graph)),
          events \in Perms(ws_keys(graph)), names \in Perms(env_keys(graph)) :
            graph' = detect_bridges(graph, topics, paths, events, names)
    /\ pc' = "built"
    /\ UNCHANGED <<files, idx, out, run, prevOut, history>>

\* main: export_json(graph)
ExportJson ==
    /\ pc = "built"
    /\ \E languages \in Perms(LanguageSet(graph)) : out' = export_json(graph, languages)
    /\ pc' = "done"
    /\ UNCHANGED <<files, graph, idx, run, prevOut, history>>

Next == ParseFile \/ DetectBridges \/ ExportJson

Spec == Init /\ [][Next]_vars

\* a second run of the analyzer on the same, unchanged files
Rerun ==
    /\ pc = "done"
    /\ run = 1
    /\ prevOut' = out
    /\ graph' = EmptyGraph
    /\ idx' = 1
    /\ pc' = "parse"
    /\ run' = 2
    /\ out' = NoOut
    /\ UNCHANGED <<files, history>>

NextTwice == ParseFile \/ DetectBridges \/ ExportJson \/ Rerun

SpecTwice == Init /\ [][NextTwice]_vars

-----------------------------------------------------------------------------
(* The graph container alone: any sequence of add_node, add_edge and       *)
(* add_bridge calls.                                                       *)

MaxCalls == 4       \* calls made on one CodeGraph

ApiNodes ==
    {Node("file:a.js", "a.js", "a.js", "file", "js", 0, NoMeta),
     Node("file:a.js", "a.js", "a.js", "file", "ts", 7, NoMeta),
     Node("mqtt:s/t", "a.js", "mqtt:s/t", "topic", "js", 3, NoMeta),
     Node("mqtt:s/t", "b.py", "mqtt:s/t", "topic", "python", 0, NoMeta)}

ApiEdges ==
    {Edge("file:a.js", "mqtt:s/t", "publishes", "a.js", 3, NoMeta),
     Edge("mqtt:s/t", "file:a.js", "subscribes", "a.js", 4, NoMeta),
     Edge("file:a.js", "file:b.js", "imports", "a.js", 1, {<<"raw", "./b.js">>}),
     Edge("file:b.js", "file:b.js", "imports", "b.js", 1, NoMeta)}

ApiBridges ==
    {Bridge("serial", "serial", <<Record("a.js", 1, "js", "write")>>,
            <<Record("b.py", 2, "python", "read")>>)}

InitGraph ==
    /\ files = <<>>
    /\ graph = EmptyGraph
    /\ pc = "api"
    /\ idx = 1
    /\ out = NoOut
    /\ run = 1
    /\ prevOut = NoOut
    /\ history = <<>>

CallAddNode ==
    /\ pc = "api"
    /\ Len(history) < MaxCalls
    /\ \E node \in ApiNodes :
          /\ graph' = add_node(graph, node)
          /\ history' = Append(history, <<"node", node>>)
    /\ UNCHANGED <<files, pc, idx, out, run, prevOut>>

CallAddEdge ==
    /\ pc = "api"
    /\ Len(history) < MaxCalls
    /\ \E edge \in ApiEdges :
          /\ graph' = add_edge(graph, edge)
          /\ history' = Append(history, <<"edge", edge>>)
    /\ UNCHANGED <<files, pc, idx, out, run, prevOut>>

CallAddBridge ==
    /\ pc = "api"
    /\ Len(history) < MaxCalls
    /\ \E bridge \in ApiBridges :
          /\ graph' = add_bridge(graph, bridge)
          /\ history' = Append(history, <<"bridge", bridge>>)
    /\ UNCHANGED <<files, pc, idx, out, run, prevOut>>

NextGraph == CallAddNode \/ CallAddEdge \/ CallAddBridge

SpecGraph == InitGraph /\ [][NextGraph]_vars

-----------------------------------------------------------------------------
(* CodeGraph.subgraph: the BFS from a start id, on a graph that is built.  *)

\* subgraph, lines 140-151: the value the local name start_id is rebound to
\* when it is no node id (the ids are scanned in insertion order)
resolve_start(g, start_id) ==
    IF HasNode(g, start_id) THEN start_id
    ELSE LET ids == [i \in 1..Len(g.nodes) |-> g.nodes[i].id]
             matches == SelectSeq(ids, LAMBDA nid : Contains(nid, start_id))
             exact == SelectSeq(matches, LAMBDA m :
                          EndsWith(m, start_id) \/ Last(Split(m, ":")) = start_id)
         IN  IF Len(matches) = 1 THEN matches[1]
             ELSE IF Len(matches) > 1
                  THEN IF exact # <<>> THEN exact[1] ELSE matches[1]
             ELSE start_id

\* subgraph, lines 153-170: the loop `while queue`
RECURSIVE bfs(_, _, _, _, _)
bfs(g, queue, visited, sub, max_depth) ==
    IF queue = <<>> THEN sub
    ELSE LET current == Head(queue)[1]
             depth == Head(queue)[2]
             rest == Tail(queue)
         IN  IF current \in visited \/ depth > max_depth
             THEN bfs(g, rest, visited, sub, max_depth)
             ELSE LET seen == visited \cup {current}
                      s1 == IF HasNode(g, current)
                            THEN add_node(sub, NodeAt(g, current)) ELSE sub
                      fwd == FoldL(LAMBDA acc, edge :
                                     [sub |-> add_edge(acc.sub, edge),
                                      queue |-> IF edge.target \notin seen
                                                THEN Append(acc.queue, <<edge.target, depth + 1>>)
                                                ELSE acc.queue],
                                   [sub |-> s1, queue |-> rest],
                                   ListAt(g.adjacency, current))
                      bwd == FoldL(LAMBDA acc, edge :
                                     [sub |-> add_edge(acc.sub, edge),
                                      queue |-> IF edge.source \notin seen
                                                THEN Append(acc.queue, <<edge.source, depth + 1>>)
                                                ELSE acc.queue],
                                   fwd,
                                   ListAt(g.reverse_adj, current))
                  IN  bfs(g, bwd.queue, seen, bwd.sub, max_depth)

\* subgraph with every bridge of the graph copied
sub_bridges_all(g, sub) == FoldL(add_bridge, sub, g.bridges)

\* subgraph, lines 172-176: the bridges that name a file of the subgraph
sub_bridges(g, sub) ==
    LET sub_files == {sub.nodes[i].file : i \in 1..Len(sub.nodes)} \ {""}
    IN  FoldL(LAMBDA acc, bridge :
                IF Files(bridge.producers \o bridge.consumers) \cap sub_files # {}
                THEN add_bridge(acc, bridge) ELSE acc,
              sub, g.bridges)

\* subgraph with a BFS that visits the nodes popped at depth max_depth + 1
subgraph_one_deeper(g, start_id, max_depth) ==
    LET queue == <<<<start_id, 0>>>>
    IN  sub_bridges(g, bfs(g, queue, {}, EmptyGraph, max_depth + 1))

\* subgraph(start_id, max_depth). The queue is built from the argument on line
\* 137, before lines 140-151 rebind start_id; nothing reads start_id after the
\* rebinding, so the BFS starts at the argument as it was passed.
subgraph(g, start_id, max_depth) ==
    LET queue == <<<<start_id, 0>>>>
        rebound == resolve_start(g, start_id)
    IN  sub_bridges(g, bfs(g, queue, {}, EmptyGraph, max_depth))

MaxDepth == 2       \* the largest max_depth passed to subgraph

TraceNode(id, file) == Node(id, file, PathName(file), "file", "js", 0, NoMeta)

\* the calls that build the graphs subgraph is called on, in call order
TraceOps ==
    <<AddNode(TraceNode("file:a.js", "a.js")),
      AddNode(TraceNode("file:b.js", "b.js")),
      AddNode(TraceNode("file:c.js", "c.js")),
      AddNode(TraceNode("file:lib/a.js", "lib/a.js")),
      AddNode(Node("func:a.js:main", "a.js", "main", "function", "js", 3, NoMeta)),
      AddEdge(Edge("file:a.js", "file:b.js", "imports", "a.js", 1, NoMeta)),
      AddEdge(Edge("file:b.js", "file:c.js", "imports", "b.js", 1, NoMeta)),
      AddEdge(Edge("file:a.js", "file:x.js", "imports", "a.js", 2, NoMeta)),
      AddEdge(Edge("file:lib/a.js", "file:c.js", "imports", "lib/a.js", 1, NoMeta))>>

TraceBridges ==
    <<Bridge("serial", "serial", <<Record("c.js", 1, "js", "write")>>,
             <<Record("lib/a.js", 2, "js", "read")>>),
      Bridge("http", "/api/x", <<Record("a.js", 4, "js", "defines GET /api/x")>>,
             <<Record("b.js", 2, "js", "calls /api/x")>>)>>

\* the graph a selection of the calls builds, the bridges added last
TraceGraph(picked, bridged) ==
    LET ops == SelectSeq([i \in 1..Len(TraceOps) |-> <<i, TraceOps[i]>>],
                         LAMBDA p : p[1] \in picked)
        g == ApplyOps(EmptyGraph, [i \in 1..Len(ops) |-> ops[i][2]])
    IN  IF bridged THEN FoldL(add_bridge, g, TraceBridges) ELSE g

\* the graphs build_graph can leave: every edge leaves a node, targets may dangle
TraceGraphs ==
    {g \in {TraceGraph(picked, bridged) :
                picked \in SUBSET (1..Len(TraceOps)), bridged \in BOOLEAN} :
        \A i \in 1..Len(g.edges) : HasNode(g, g.edges[i].source)}

\* start arguments: two ids, a unique substring, substrings of several ids,
\* the dangling target of an edge, and a string that is in no id
TraceStarts == {"file:a.js", "file:c.js", "b.js", "a.js", "a.j", "lib", "file:x.js", "zzz"}

InitTrace ==
    /\ files = <<>>
    /\ graph \in TraceGraphs
    /\ pc = "trace"
    /\ idx = 1
    /\ out = NoOut
    /\ run = 1
    /\ prevOut = NoOut
    /\ history = <<>>

\* main: graph.subgraph(trace_id, max_depth=args.depth)
CallSubgraph ==
    /\ pc = "trace"
    /\ \E start_id \in TraceStarts, max_depth \in 0..MaxDepth :
          /\ out' = subgraph(graph, start_id, max_depth)
          /\ history' = <<<<"subgraph", start_id, max_depth>>>>
    /\ pc' = "traced"
    /\ UNCHANGED <<files, graph, idx, run, prevOut>>

NextTrace == CallSubgraph

SpecTrace == InitTrace /\ [][NextTrace]_vars

-----------------------------------------------------------------------------
(* build_graph on files that may not be readable.                          *)

\* what reading a file does: "utf-8" decodes at once, "latin-1" is a file that
\* is not valid UTF-8, "denied" a file the process may not open
ReadModes == {"utf-8", "latin-1", "denied"}

OnDisk(f, mode) ==
    [path |-> f.path, content |-> f.content, json |-> f.json, read |-> mode]

\* read_file_safe: read_text per encoding; UnicodeDecodeError and ValueError
\* move on to the next encoding, and latin-1 decodes any bytes, so a file that
\* is not UTF-8 is returned decoded as latin-1 (the text the patterns look at is
\* the same); a PermissionError is not caught and leaves the function
read_file_safe(f) ==
    IF f.read = "denied" THEN [raised |-> TRUE, content |-> <<>>]
    ELSE [raised |-> FALSE, content |-> f.content]

\* projects in which at most one file is not plain readable UTF-8
ReadFamilies == {"mqtt", "misc"}

ReadProjects ==
    UNION {ProjectsOver(fam, FamilyFiles(fam), MaxLines) : fam \in ReadFamilies}

\* the project p on a disk where at most its k-th file is not plain UTF-8
ReadProject(p, k, mode) ==
    [i \in 1..Len(p) |-> OnDisk(p[i], IF i = k THEN mode ELSE "utf-8")]

InitRead ==
    /\ \E p \in ReadProjects, mode \in ReadModes \ {"utf-8"} :
          \E k \in 0..Len(p) : files = ReadProject(p, k, mode)
    /\ graph = EmptyGraph
    /\ pc = "parse"
    /\ idx = 1
    /\ out = NoOut
    /\ run = 1
    /\ prevOut = NoOut
    /\ history = <<>>

\* build_graph: one iteration of `for fpath in files`, the read included; an
\* exception that leaves read_file_safe leaves build_graph too
ReadAndParseFile ==
    /\ pc = "parse"
    /\ idx <= Len(files)
    /\ LET got == read_file_safe(files[idx])
       IN  IF got.raised
           THEN /\ pc' = "aborted"
                /\ UNCHANGED <<graph, idx>>
           ELSE /\ graph' = parse_file([files[idx] EXCEPT !.content = got.content], graph)
                /\ idx' = idx + 1
                /\ UNCHANGED pc
    /\ UNCHANGED <<files, out, run, prevOut, history>>

NextRead == ReadAndParseFile \/ DetectBridges \/ ExportJson

SpecRead == InitRead /\ [][NextRead]_vars

-----------------------------------------------------------------------------
(* The two pure helpers of detect_bridges, mqtt_topic_matches and          *)
(* normalize_http_path, called on their own. The arguments are drawn in    *)
(* Init and recorded in history; the call stores the result in out.        *)

MaxSegs == 3

\* the sequences of 1..n segments over S
SegSeqs(S, n) == UNION {[1..k -> S] : k \in 1..n}

TopicSegs == {"a", "b", "+", ""}

\* topics as split on '/'
TopicParts == SegSeqs(TopicSegs, MaxSegs)

\* patterns as split on '/': '#' occurs only as the last segment
PatternParts ==
    {p \in SegSeqs(TopicSegs \cup {"#"}, MaxSegs) :
        \A i \in 1..(Len(p) - 1) : p[i] # "#"}

PathSegs == {"api", "API", "x", "42", ":id", "${id}", "{id}", "{}", "h:80", ""}

\* paths '/seg/seg...'; a last segment '' gives a trailing slash
HttpPaths == {"/" \o JoinStr(p, "/") : p \in SegSeqs(PathSegs, MaxSegs)}

InitCall ==
    /\ files = <<>>
    /\ graph = EmptyGraph
    /\ pc = "call"
    /\ idx = 1
    /\ out = NoOut
    /\ run = 1
    /\ prevOut = NoOut
    /\ \/ \E p \in PatternParts, t \in TopicParts :
             history = <<<<"mqtt_topic_matches", JoinStr(p, "/"), JoinStr(t, "/")>>>>
       \/ \E path \in HttpPaths :
             history = <<<<"normalize_http_path", path>>>>

\* detect_bridges line 783: mqtt_topic_matches(sub_topic, topic)
CallTopicMatches ==
    /\ pc = "call"
    /\ history[1][1] = "mqtt_topic_matches"
    /\ out' = mqtt_topic_matches(history[1][2], history[1][3])
    /\ pc' = "matched"
    /\ UNCHANGED <<files, graph, idx, run, prevOut, history>>

\* detect_bridges lines 805 and 813: normalize_http_path(path)
CallNormalize ==
    /\ pc = "call"
    /\ history[1][1] = "normalize_http_path"
    /\ out' = normalize_http_path(history[1][2])
    /\ pc' = "normalized"
    /\ UNCHANGED <<files, graph, idx, run, prevOut, history>>

NextCall == CallTopicMatches \/ CallNormalize

SpecCall == InitCall /\ [][NextCall]_vars

-----------------------------------------------------------------------------
(* Connected components: clusters and file_clusters.                       *)

\* neighbors(node_id, "both")
neighbors(g, node_id) ==
    {e.target : e \in Range(ListAt(g.adjacency, node_id))}
    \cup {e.source : e \in Range(ListAt(g.reverse_adj, node_id))}

\* clusters, lines 191-199: the BFS that collects one component. The set of
\* neighbors is appended in one of its iteration orders; the component found
\* is the same for each of them.
RECURSIVE component(_, _, _, _)
component(g, queue, visited, comp) ==
    IF queue = <<>> THEN [visited |-> visited, component |-> comp]
    ELSE LET current == Head(queue)
         IN  IF current \in visited
             THEN component(g, Tail(queue), visited, comp)
             ELSE LET seen == visited \cup {current}
                      fresh == neighbors(g, current) \ seen
                  IN  component(g, Tail(queue) \o (CHOOSE p \in Perms(fresh) : TRUE),
                                seen, comp \cup {current})

\* sorted(sets, key=len, reverse=True): stable, ties keep their order
SortBySize(sets) ==
    LET sorted == SortByCount([i \in 1..Len(sets) |-> <<sets[i], Cardinality(sets[i])>>])
    IN  [i \in 1..Len(sorted) |-> sorted[i][1]]

\* clusters(min_size)
clusters(g, min_size) ==
    SortBySize(
        FoldL(LAMBDA acc, node :
                IF node.id \in acc.visited THEN acc
                ELSE LET found == component(g, <<node.id>>, acc.visited, {})
                     IN  [visited |-> found.visited,
                          components |->
                              IF Cardinality(found.component) >= min_size
                              THEN Append(acc.components, found.component)
                              ELSE acc.components],
              [visited |-> {}, components |-> <<>>], g.nodes).components)

\* file_clusters without the subtraction of the files already seen
file_clusters_no_dedup(g, min_size) ==
    LET node_clusters == clusters(g, 1)
        by_file == FoldL(LAMBDA acc, cluster :
                           LET fs == {NodeAt(g, id).file : id \in cluster \cap NodeIds(g)} \ {""}
                           IN  IF Cardinality(fs) >= min_size THEN Append(acc, fs) ELSE acc,
                         <<>>, node_clusters)
    IN  SortBySize(by_file)

\* file_clusters(min_size)
file_clusters(g, min_size) ==
    LET node_clusters == clusters(g, 1)
        by_file == FoldL(LAMBDA acc, cluster :
                           LET fs == {NodeAt(g, id).file : id \in cluster \cap NodeIds(g)} \ {""}
                           IN  IF Cardinality(fs) >= min_size THEN Append(acc, fs) ELSE acc,
                         <<>>, node_clusters)
    IN  FoldL(LAMBDA acc, cluster :
                LET remaining == cluster \ acc.seen_files
                IN  IF Cardinality(remaining) >= min_size
                    THEN [seen_files |-> acc.seen_files \cup remaining,
                          result |-> Append(acc.result, remaining)]
                    ELSE acc,
              [seen_files |-> {}, result |-> <<>>], SortBySize(by_file)).result

MaxMinSize == 2     \* the largest min_size passed to file_clusters

\* the calls that build the graphs file_clusters is called on, in call order
ClusterOps ==
    <<AddNode(TraceNode("file:a.js", "a.js")),
      AddNode(TraceNode("file:b.js", "b.js")),
      AddNode(Node("func:a.js:main", "a.js", "main", "function", "js", 3, NoMeta)),
      AddNode(TraceNode("file:c.js", "c.js")),
      AddNode(TraceNode("file:d.js", "d.js")),
      AddNode(TraceNode("file:e.js", "e.js")),
      AddNode(Node("pkg:express", "", "express", "file", "config", 0, NoMeta)),
      AddEdge(Edge("file:a.js", "file:b.js", "imports", "a.js", 1, NoMeta)),
      AddEdge(Edge("file:c.js", "func:a.js:main", "calls", "c.js", 1, NoMeta)),
      AddEdge(Edge("file:d.js", "file:e.js", "imports", "d.js", 1, NoMeta)),
      AddEdge(Edge("file:d.js", "file:x.js", "imports", "d.js", 2, NoMeta)),
      AddEdge(Edge("file:e.js", "pkg:express", "imports", "e.js", 0, NoMeta))>>

\* the graphs a selection of the calls builds: every edge leaves a node
ClusterGraphs ==
    {g \in {ApplyOps(EmptyGraph, SelectSeq(ClusterOps, LAMBDA op : op \in picked)) :
                picked \in SUBSET Range(ClusterOps)} :
        \A i \in 1..Len(g.edges) : HasNode(g, g.edges[i].source)}

InitClusters ==
    /\ files = <<>>
    /\ graph \in ClusterGraphs
    /\ pc = "cluster"
    /\ idx = 1
    /\ out = NoOut
    /\ run = 1
    /\ prevOut = NoOut
    /\ history = <<>>

\* export_markdown, export_review_clusters: graph.file_clusters(min_size)
CallFileClusters ==
    /\ pc = "cluster"
    /\ \E min_size \in 0..MaxMinSize :
          /\ out' = file_clusters(graph, min_size)
          /\ history' = <<<<"file_clusters", min_size>>>>
    /\ pc' = "clustered"
    /\ UNCHANGED <<files, graph, idx, run, prevOut>>

NextClusters == CallFileClusters

SpecClusters == InitClusters /\ [][NextClusters]_vars

-----------------------------------------------------------------------------
(* Claims.                                                                 *)

Built == pc \in {"built", "done"}

NodeCalls == SelectSeq(history, LAMBDA c : c[1] = "node")

\* the node of the first add_node call made with this id
FirstInserted(id) ==
    LET k == CHOOSE i \in 1..Len(NodeCalls) :
                 /\ NodeCalls[i][2].id = id
                 /\ \A j \in 1..(i - 1) : NodeCalls[j][2].id # id
    IN  NodeCalls[k][2]

\* the call just made is an add_node with an id the graph already holds
DuplicateAddNode ==
    /\ Len(history') = Len(history) + 1
    /\ history'[Len(history')][1] = "node"
    /\ HasNode(graph, history'[Len(history')][2].id)

\* C1: after any sequence of add_node, add_edge and add_bridge calls, nodes[id]
\* is the first node inserted with that id, each id is held once, and an
\* add_node with an id already present leaves the whole graph as it was.
C1_FirstWins ==
    /\ [](/\ NodeIds(graph) = {NodeCalls[i][2].id : i \in 1..Len(NodeCalls)}
          /\ \A i, j \in 1..Len(graph.nodes) :
                graph.nodes[i].id = graph.nodes[j].id => i = j
          /\ \A id \in NodeIds(graph) : NodeAt(graph, id) = FirstInserted(id))
    /\ [][DuplicateAddNode => graph' = graph]_vars

\* a second add_node with the id of an earlier one, but another node, was made
C1_Witness ==
    /\ graph.edges # <<>>
    /\ \E i, j \in 1..Len(NodeCalls) :
          /\ i < j
          /\ NodeCalls[i][2].id = NodeCalls[j][2].id
          /\ NodeCalls[i][2] # NodeCalls[j][2]

\* every id the graph mentions, and one it does not
AllIds(g) ==
    NodeIds(g) \cup {g.edges[i].source : i \in 1..Len(g.edges)}
               \cup {g.edges[i].target : i \in 1..Len(g.edges)}
               \cup DOMAIN g.adjacency \cup DOMAIN g.reverse_adj \cup {"file:none"}

\* C2: for every id s the forward adjacency list of s is the subsequence of the
\* edge list with source s, and the reverse adjacency list of s the subsequence
\* with target s, in insertion order, whether or not s is a node.
C2_Adjacency ==
    \A s \in AllIds(graph) :
        /\ ListAt(graph.adjacency, s) = SelectSeq(graph.edges, LAMBDA e : e.source = s)
        /\ ListAt(graph.reverse_adj, s) = SelectSeq(graph.edges, LAMBDA e : e.target = s)

\* an edge was added twice, and an edge between two ids that are no nodes
C2_Witness ==
    /\ \E i, j \in 1..Len(graph.edges) : i < j /\ graph.edges[i] = graph.edges[j]
    /\ \E i \in 1..Len(graph.edges) :
          /\ ~HasNode(graph, graph.edges[i].source)
          /\ ~HasNode(graph, graph.edges[i].target)
          /\ Len(ListAt(graph.reverse_adj, graph.edges[i].target)) >= 1

\* C3: during and after build_graph every edge's source id is a key of nodes.
C3_EdgeSourcesAreNodes ==
    \A i \in 1..Len(graph.edges) : HasNode(graph, graph.edges[i].source)

\* a built graph with an edge out of serial:connection and an edge whose target
\* is no node
C3_Witness ==
    /\ Built
    /\ \E i \in 1..Len(graph.edges) : graph.edges[i].source = "serial:connection"
    /\ \E i \in 1..Len(graph.edges) : ~HasNode(graph, graph.edges[i].target)

\* C4: the second run on the same files gives the output of the first.
C4_SameOutput == (pc = "done" /\ run = 2) => out = prevOut

Prefixed(key) == StartsWith(key, "UNMATCHED:") \/ StartsWith(key, "UNDEFINED:")

BridgeFiles(b) == Files(b.producers) \cup Files(b.consumers)

\* C5: every bridge that is neither UNMATCHED:, UNDEFINED: nor serial names at
\* least 2 distinct files.
C5_BridgesSpanTwoFiles ==
    \A i \in 1..Len(graph.bridges) :
        LET b == graph.bridges[i]
        IN  (~Prefixed(b.key) /\ b.bridge_type # "serial") => Cardinality(BridgeFiles(b)) >= 2

\* C6: an UNMATCHED: http bridge and an UNDEFINED: env bridge have no producers
\* and some consumer; an http or env bridge with a plain key has a producer.
C6_BrokenBridges ==
    \A i \in 1..Len(graph.bridges) :
        LET b == graph.bridges[i]
        IN  /\ (\/ b.bridge_type = "http" /\ StartsWith(b.key, "UNMATCHED:")
                \/ b.bridge_type = "env" /\ StartsWith(b.key, "UNDEFINED:"))
               => (b.producers = <<>> /\ b.consumers # <<>>)
            /\ (b.bridge_type \in {"http", "env"} /\ ~Prefixed(b.key)) => b.producers # <<>>

\* an UNMATCHED: bridge beside a matched http bridge
C6_Witness ==
    /\ Built
    /\ \E i, j \in 1..Len(graph.bridges) :
          /\ graph.bridges[i].bridge_type = "http"
          /\ StartsWith(graph.bridges[i].key, "UNMATCHED:")
          /\ graph.bridges[j].bridge_type = "http"
          /\ ~Prefixed(graph.bridges[j].key)

\* the number of bridges of a type with a key
NBridges(type, key) ==
    Cardinality({i \in 1..Len(graph.bridges) :
                    graph.bridges[i].bridge_type = type /\ graph.bridges[i].key = key})

HttpDefs(key) == TableGet(http_tables(graph).producers, key)
HttpCalls(key) == TableGet(http_tables(graph).consumers, key)

\* C7 as claimed: every key gets one http bridge, plain with a definer,
\* UNMATCHED: with callers and no definer.
C7_BridgePerKey ==
    Built =>
    \A key \in http_keys(graph) :
        /\ HttpDefs(key) # <<>> =>
              NBridges("http", key) = 1 /\ NBridges("http", "UNMATCHED:" \o key) = 0
        /\ (HttpDefs(key) = <<>> /\ HttpCalls(key) # <<>>) =>
              NBridges("http", key) = 0 /\ NBridges("http", "UNMATCHED:" \o key) = 1

\* C7 as amended: a key with definers and callers gets one plain http bridge, a
\* key with callers only one UNMATCHED: bridge, a key with definers only none.
C7_BridgePerCalledKey ==
    Built =>
    \A key \in http_keys(graph) :
        /\ (HttpDefs(key) # <<>> /\ HttpCalls(key) # <<>>) =>
              /\ NBridges("http", key) = 1 /\ NBridges("http", "UNMATCHED:" \o key) = 0
              /\ \E i \in 1..Len(graph.bridges) :
                    graph.bridges[i] = Bridge("http", key, HttpDefs(key), HttpCalls(key))
        /\ (HttpDefs(key) = <<>> /\ HttpCalls(key) # <<>>) =>
              /\ NBridges("http", key) = 0 /\ NBridges("http", "UNMATCHED:" \o key) = 1
              /\ \E i \in 1..Len(graph.bridges) :
                    graph.bridges[i] = Bridge("http", "UNMATCHED:" \o key, <<>>, HttpCalls(key))
        /\ (HttpDefs(key) # <<>> /\ HttpCalls(key) = <<>>) =>
              NBridges("http", key) = 0 /\ NBridges("http", "UNMATCHED:" \o key) = 0

\* a route nobody calls beside a route that is called
C7_Witness ==
    /\ Built
    /\ \E k1, k2 \in http_keys(graph) :
          /\ HttpDefs(k1) # <<>> /\ HttpCalls(k1) = <<>> /\ NBridges("http", k1) = 0
          /\ HttpDefs(k2) # <<>> /\ HttpCalls(k2) # <<>> /\ NBridges("http", k2) = 1

EnvDefs(var) == TableGet(env_tables(graph).producers, var)
EnvUses(var) == TableGet(env_tables(graph).consumers, var)
EnvFiles(var) == Files(EnvDefs(var)) \cup Files(EnvUses(var))

\* C8 as claimed: users without definers give one UNDEFINED: bridge; in every
\* other case the plain bridge is emitted iff definers and users name 2 files.
C8_EnvBridgeIffTwoFiles ==
    Built =>
    \A var \in env_keys(graph) :
        IF EnvUses(var) # <<>> /\ EnvDefs(var) = <<>>
        THEN NBridges("env", "UNDEFINED:" \o var) = 1
        ELSE NBridges("env", var) = (IF Cardinality(EnvFiles(var)) >= 2 THEN 1 ELSE 0)

\* C8 as amended: users without definers give one UNDEFINED: bridge; definers
\* and users give the plain bridge iff together they name 2 files; definers
\* without users give no bridge.
C8_EnvBridgeNeedsUsers ==
    Built =>
    \A var \in env_keys(graph) :
        /\ (EnvUses(var) # <<>> /\ EnvDefs(var) = <<>>) =>
              /\ NBridges("env", "UNDEFINED:" \o var) = 1 /\ NBridges("env", var) = 0
              /\ \E i \in 1..Len(graph.bridges) :
                    graph.bridges[i] = Bridge("env", "UNDEFINED:" \o var, <<>>, EnvUses(var))
        /\ (EnvUses(var) # <<>> /\ EnvDefs(var) # <<>>) =>
              /\ NBridges("env", var) = (IF Cardinality(EnvFiles(var)) >= 2 THEN 1 ELSE 0)
              /\ NBridges("env", "UNDEFINED:" \o var) = 0
        /\ (EnvUses(var) = <<>> /\ EnvDefs(var) # <<>>) =>
              NBridges("env", var) = 0 /\ NBridges("env", "UNDEFINED:" \o var) = 0

\* a variable two files define and nobody uses, beside one used and not defined
C8_Witness ==
    /\ Built
    /\ \E v1, v2 \in env_keys(graph) :
          /\ EnvUses(v1) = <<>> /\ Cardinality(EnvFiles(v1)) >= 2 /\ NBridges("env", v1) = 0
          /\ EnvUses(v2) # <<>> /\ EnvDefs(v2) = <<>>
          /\ NBridges("env", "UNDEFINED:" \o v2) = 1

EdgeSet == {graph.edges[i] : i \in 1..Len(graph.edges)}

\* the topic of an mqtt: id
TopicOf(id) == SubSeq(id, Len("mqtt:") + 1, Len(id))

PubEdges(topic) ==
    {e \in EdgeSet : e.edge_type = "publishes" /\ e.target = "mqtt:" \o topic}

SubEdges(topic) ==
    {e \in EdgeSet : e.edge_type = "subscribes" /\ e.source = "mqtt:" \o topic}

\* every topic string published or subscribed anywhere
Topics ==
    {TopicOf(e.target) : e \in {x \in EdgeSet : x.edge_type = "publishes"}}
    \cup {TopicOf(e.source) :
             e \in {x \in EdgeSet : x.edge_type = "subscribes" /\ StartsWith(x.source, "mqtt:")}}

\* the other subscribed patterns that match a topic
MatchingPatterns(topic) ==
    {s \in Topics : s # topic /\ SubEdges(s) # {} /\ mqtt_topic_matches(s, topic)}

\* the subscriptions that consume a topic: exact ones and matching patterns
ConsEdges(topic) == SubEdges(topic) \cup UNION {SubEdges(s) : s \in MatchingPatterns(topic)}

TopicFiles(topic) ==
    {e.file : e \in PubEdges(topic)} \cup {NodeAt(graph, e.target).file : e \in ConsEdges(topic)}

TopicLanguages(topic) ==
    {NodeAt(graph, "file:" \o e.file).language : e \in PubEdges(topic)}
    \cup {NodeAt(graph, e.target).language : e \in ConsEdges(topic)}

IsWildcard(topic) == Contains(topic, "+") \/ Contains(topic, "#")

\* a literal topic published in one file and a matching wildcard pattern
\* subscribed in another
WildcardPairs ==
    {<<pe, se>> \in EdgeSet \X EdgeSet :
        /\ pe.edge_type = "publishes" /\ StartsWith(pe.target, "mqtt:")
        /\ se.edge_type = "subscribes" /\ StartsWith(se.source, "mqtt:")
        /\ ~IsWildcard(TopicOf(pe.target)) /\ IsWildcard(TopicOf(se.source))
        /\ mqtt_topic_matches(TopicOf(se.source), TopicOf(pe.target))
        /\ pe.file # se.file}

\* the bridge keyed by the published topic holds the publish record of A and the
\* subscribe record of B, with B's file, line and language
PairBridged(pe, se) ==
    \E i \in 1..Len(graph.bridges) :
        /\ graph.bridges[i].bridge_type = "mqtt"
        /\ graph.bridges[i].key = TopicOf(pe.target)
        /\ Record(pe.file, pe.line, NodeAt(graph, "file:" \o pe.file).language, "publish")
              \in Range(graph.bridges[i].producers)
        /\ Record(se.file, se.line, NodeAt(graph, "file:" \o se.file).language, "subscribe")
              \in Range(graph.bridges[i].consumers)

\* the pattern is subscribed in this file only and never published
OnlyIn(pattern, file) ==
    /\ PubEdges(pattern) = {}
    /\ \A e \in SubEdges(pattern) : e.file = file

RoutePath(id) == Last(SplitMax(id, ":", 2))

\* the defines edges of a GET route with this path, the fetches edges of a GET
\* call to this path
RouteEdges(path) ==
    {e \in EdgeSet : e.edge_type = "defines" /\ e.target = "http:GET:" \o path}

FetchEdges(path) ==
    {e \in EdgeSet : e.edge_type = "fetches" /\ e.target = "http:GET:" \o path}

\* some http bridge with this key has a producer in one file and a consumer in
\* the other
HttpBridged(key, pfile, cfile) ==
    \E i \in 1..Len(graph.bridges) :
        /\ graph.bridges[i].bridge_type = "http"
        /\ graph.bridges[i].key = key
        /\ pfile \in Files(graph.bridges[i].producers)
        /\ cfile \in Files(graph.bridges[i].consumers)

\* C11: a Python route /users/<id> and a JavaScript call fetch('/users/42')
\* both normalize to /users/{param}, and one matched http bridge with that key
\* has the Python definition as producer and the JavaScript call as consumer.
C11_PythonRouteMatchesCall ==
    Built =>
    \A de \in RouteEdges("/users/<id>"), fe \in FetchEdges("/users/42") :
        (FileLang(graph, de.file) = "python" /\ FileLang(graph, fe.file) \in {"js", "ts"}) =>
            /\ normalize_http_path("/users/<id>") = "/users/{param}"
            /\ normalize_http_path("/users/42") = "/users/{param}"
            /\ NBridges("http", "/users/{param}") = 1
            /\ HttpBridged("/users/{param}", de.file, fe.file)

\* the arguments of the subgraph call that was made
TraceStart == history[1][2]
TraceDepth == history[1][3]

\* the node ids that hold the start string
Candidates == {id \in NodeIds(graph) : Contains(id, TraceStart)}

\* the ASCII order of the characters of the ids
AsciiOrder == "./0123456789:" \o UpperChars \o "_" \o LowerChars

Rank(c) == CHOOSE i \in 1..Len(AsciiOrder) : Ch(AsciiOrder, i) = c

RECURSIVE StrLess(_, _)
StrLess(a, b) ==
    IF b = "" THEN FALSE
    ELSE IF a = "" THEN TRUE
    ELSE IF Ch(a, 1) = Ch(b, 1) THEN StrLess(Tail(a), Tail(b))
    ELSE Rank(Ch(a, 1)) < Rank(Ch(b, 1))

\* the ids the start may be disambiguated to
Disambiguated ==
    LET preferred == {id \in Candidates :
                         EndsWith(id, TraceStart) \/ Last(Split(id, ":")) = TraceStart}
    IN  IF Cardinality(Candidates) = 1 THEN Candidates
        ELSE IF preferred # {} THEN preferred
        ELSE {id \in Candidates : \A other \in Candidates \ {id} : StrLess(id, other)}

\* C12: when the start is no node id and is a substring of some node id, the
\* result of subgraph(start, D) is subgraph(resolved_id, D) for the
\* disambiguated id: the single candidate, else one that ends with the start
\* or whose last ':'-segment is the start, else the lexicographically first.
C12_StartDisambiguated ==
    (pc = "traced" /\ ~HasNode(graph, TraceStart) /\ Candidates # {}) =>
        \E resolved_id \in Disambiguated : out = subgraph(graph, resolved_id, TraceDepth)

\* C13: when the start is neither a node id nor a substring of a node id, the
\* subgraph is empty: no nodes, no edges, no bridges.
C13_UnknownStartGivesEmpty ==
    (pc = "traced" /\ ~HasNode(graph, TraceStart) /\ Candidates = {}) =>
        (out.nodes = <<>> /\ out.edges = <<>> /\ out.bridges = <<>>)

EdgeAB == Edge("file:a.js", "file:b.js", "imports", "a.js", 1, NoMeta)
EdgeBC == Edge("file:b.js", "file:c.js", "imports", "b.js", 1, NoMeta)

\* C14: in the graph whose only edges are a.js -> b.js -> c.js,
\* subgraph("a.js", 1) has the nodes file:a.js and file:b.js and only the edge
\* between them; subgraph("a.js", 2) has file:c.js and its edge too.
C14_DepthLimitedTrace ==
    (/\ pc = "traced"
     /\ NodeIds(graph) = {"file:a.js", "file:b.js", "file:c.js"}
     /\ graph.edges = <<EdgeAB, EdgeBC>>
     /\ TraceStart = "a.js") =>
        /\ TraceDepth = 1 =>
              (NodeIds(out) = {"file:a.js", "file:b.js"} /\ Range(out.edges) = {EdgeAB})
        /\ TraceDepth = 2 =>
              (/\ NodeIds(out) = {"file:a.js", "file:b.js", "file:c.js"}
               /\ Range(out.edges) = {EdgeAB, EdgeBC})

\* the files whose read gives content: all but those that cannot be opened
ReadableFiles == SelectSeq(files, LAMBDA f : f.read # "denied")

\* C15: if reading a discovered file fails, build_graph does not abort: the file
\* contributes no node and no edge, the other files are parsed in order and
\* detect_bridges runs.
C15_ReadFailureSkipsFile ==
    /\ pc # "aborted"
    /\ Built =>
          LET parsed == FoldL(LAMBDA g, f : parse_file(f, g), EmptyGraph, ReadableFiles)
          IN  graph.nodes = parsed.nodes /\ graph.edges = parsed.edges

\* a non-empty package.json whose content is no JSON
BrokenPackageFiles ==
    {files[i] : i \in {k \in 1..Len(files) :
                          /\ PathName(files[k].path) = "package.json"
                          /\ files[k].content # <<>>
                          /\ ~files[k].json.valid}}

NodeSet == {graph.nodes[i] : i \in 1..Len(graph.nodes)}

\* the files after f in the order build_graph parses them, that have content
ParsedAfter(f) ==
    {files[i] : i \in {k \in 1..Len(files) :
                          /\ files[k].content # <<>>
                          /\ \E j \in 1..(k - 1) : files[j] = f}}

\* C16: a non-empty package.json that fails to parse as JSON contributes its
\* file:<relpath> node and nothing else (no pkg: node, no script: node, no
\* edge), and the files after it are parsed.
C16_BrokenPackageJson ==
    Built =>
    \A f \in BrokenPackageFiles :
        /\ HasNode(graph, "file:" \o f.path)
        /\ \A n \in NodeSet :
              /\ n.file = f.path => n.id = "file:" \o f.path
              /\ ~StartsWith(n.id, "pkg:")
              /\ ~StartsWith(n.id, "script:")
        /\ \A e \in EdgeSet : e.file # f.path /\ e.source # "file:" \o f.path
        /\ \A later \in ParsedAfter(f) : HasNode(graph, "file:" \o later.path)

\* a built project with a broken package.json and a file parsed after it
C16_Witness ==
    /\ Built
    /\ \E f \in BrokenPackageFiles :
          /\ HasNode(graph, "file:" \o f.path)
          /\ ParsedAfter(f) # {}
          /\ \E e \in EdgeSet : e.file \in {later.path : later \in ParsedAfter(f)}


-----------------------------------------------------------------------------
\* the pattern and the topic of the mqtt_topic_matches call, as segments
CallPattern == Split(history[1][2], "/")
CallTopic == Split(history[1][3], "/")

\* one pattern segment against one topic segment
SegOK(p, t) == p = "+" \/ p = t

\* the MQTT rules, for a pattern whose '#' can only be its last segment
MqttRule(P, T) ==
    IF Last(P) = "#"
    THEN /\ Len(T) >= Len(P) - 1
         /\ \A i \in 1..(Len(P) - 1) : SegOK(P[i], T[i])
    ELSE /\ Len(T) = Len(P)
         /\ \A i \in 1..Len(P) : SegOK(P[i], T[i])

\* C17: for every pattern and topic over a bounded alphabet of segments, with
\* '#' only as the last pattern segment, mqtt_topic_matches(pattern, topic) is
\* true exactly when the pattern matches the topic under the MQTT rules: '+'
\* matches exactly one segment, a trailing '#' matches zero or more remaining
\* segments, any other segment must be equal, and without '#' the two have
\* the same number of segments.
C17_MatchesMqttRules ==
    pc = "matched" => (out <=> MqttRule(CallPattern, CallTopic))

\* a/# matches a: the '#' stands for zero remaining segments
C17_Witness ==
    /\ pc = "matched"
    /\ history[1][2] = "a/#"
    /\ history[1][3] = "a"
    /\ out = TRUE

-----------------------------------------------------------------------------
\* the argument of the normalize_http_path call
CallPath == history[1][2]

\* a static path: no ':' followed by a word character (:name) and no '{',
\* one or more characters other than '}', and '}' ({...} and ${...})
StaticPath(path) ==
    /\ ~ \E i \in 1..(Len(path) - 1) :
            Ch(path, i) = ":" /\ IsWordChar(Ch(path, i + 1))
    /\ ~ \E i \in 1..Len(path), j \in 1..Len(path) :
            /\ j >= i + 2
            /\ Ch(path, i) = "{"
            /\ Ch(path, j) = "}"
            /\ \A k \in (i + 1)..(j - 1) : Ch(path, k) # "}"

NoUpperCase(path) == \A i \in 1..Len(path) : ~InChars(Ch(path, i), UpperChars)

\* C20: normalize_http_path returns its input unchanged for every static
\* path, that is every path that contains no :name, ${...} or {...}
\* parameter marker.
C20_StaticPathUnchanged ==
    (pc = "normalized" /\ StaticPath(CallPath)) => out = CallPath

\* C20 (amended): normalize_http_path returns its input unchanged for every
\* static path that has no upper-case letter and does not end with '/'.
C20_StaticLowerPathUnchanged ==
    (/\ pc = "normalized"
     /\ StaticPath(CallPath)
     /\ NoUpperCase(CallPath)
     /\ ~EndsWith(CallPath, "/")) => out = CallPath

C20_Witness ==
    /\ pc = "normalized"
    /\ CallPath = "/api/42/{}"
    /\ StaticPath(CallPath)
    /\ out = "/api/42/{}"

-----------------------------------------------------------------------------
\* the publish records of the edges that publish to exactly this topic string
PublishRecords(topic) ==
    {Record(e.file, e.line, FileLang(graph, e.file), "publish") : e \in PubEdges(topic)}

\* the number of publishes edges to exactly this topic string
NPublishes(topic) ==
    Cardinality({k \in 1..Len(graph.edges) :
                    /\ graph.edges[k].edge_type = "publishes"
                    /\ graph.edges[k].target = "mqtt:" \o topic})

-----------------------------------------------------------------------------
\* the defines edges whose target is an endpoint node
EndpointDefines ==
    {e \in EdgeSet :
        /\ e.edge_type = "defines"
        /\ HasNode(graph, e.target)
        /\ NodeAt(graph, e.target).node_type = "endpoint"}

\* the fetches edges that call the path of this route
CallsOfRoute(de) ==
    {e \in EdgeSet : e.edge_type = "fetches" /\ RoutePath(e.target) = RoutePath(de.target)}

\* C19: every defines edge whose target is an endpoint node yields an http
\* producer keyed by the normalized route path, whichever extractor created
\* the endpoint: a route and a call to the identical static path get the same
\* key and form one matched http bridge, not an UNMATCHED: one.
C19_DefinerKeyedByRoutePath ==
    Built =>
    \A de \in EndpointDefines :
        LET key == normalize_http_path(RoutePath(de.target))
        IN  /\ \E r \in Range(HttpDefs(key)) : r.file = de.file /\ r.line = de.line
            /\ (StaticPath(RoutePath(de.target)) /\ CallsOfRoute(de) # {}) =>
                  /\ NBridges("http", key) = 1
                  /\ NBridges("http", "UNMATCHED:" \o key) = 0

-----------------------------------------------------------------------------
\* the ids one edge away from an id of S, in either direction
Around(S) ==
    {e.target : e \in {x \in Range(graph.edges) : x.source \in S}}
    \cup {e.source : e \in {x \in Range(graph.edges) : x.target \in S}}

\* the ids at distance at most k from the start, following edges in either
\* direction
RECURSIVE Within(_)
Within(k) == IF k = 0 THEN {TraceStart} ELSE Within(k - 1) \cup Around(Within(k - 1))

\* C21: for a start that is an exact node id and any max_depth D >= 0, the
\* node set of subgraph(start, D) is exactly the set of nodes of the source
\* graph whose distance from start, following edges in either direction, is
\* at most D.
C21_NodesWithinDepth ==
    (pc = "traced" /\ HasNode(graph, TraceStart)) =>
        NodeIds(out) = NodeIds(graph) \cap Within(TraceDepth)

\* a trace of depth 1 from file:c.js that reaches file:b.js against its edge
\* and leaves out file:a.js, two edges away
C21_Witness ==
    /\ pc = "traced"
    /\ TraceStart = "file:c.js"
    /\ TraceDepth = 1
    /\ "file:a.js" \in NodeIds(graph) \cap Within(2)
    /\ "file:b.js" \in NodeIds(out)
    /\ "file:a.js" \notin NodeIds(out)

-----------------------------------------------------------------------------
\* the files of the nodes of the subgraph
SubFiles == {out.nodes[i].file : i \in 1..Len(out.nodes)}

\* at least one producer or consumer file is the file of a subgraph node
BridgeTouches(bridge) == Files(bridge.producers \o bridge.consumers) \cap SubFiles # {}

\* C22: the bridges of subgraph(start, D) are exactly the bridges of the
\* source graph, in their original order, for which at least one producer or
\* consumer file is the file of some node in the subgraph.
C22_BridgesOfSubgraphFiles ==
    pc = "traced" => out.bridges = SelectSeq(graph.bridges, BridgeTouches)

\* of the two bridges of the graph only the second names a file of the subgraph
C22_Witness ==
    /\ pc = "traced"
    /\ Len(graph.bridges) = 2
    /\ out.nodes # <<>>
    /\ out.bridges = <<graph.bridges[2]>>

-----------------------------------------------------------------------------
\* how many times the edge occurs in an edge list
EdgeCount(edges, e) == Cardinality({i \in 1..Len(edges) : edges[i] = e})

\* C28: the edge list of subgraph(start, D) contains each edge of the source
\* graph at most as many times as the source graph does: an edge whose two
\* endpoints are both visited by the BFS is not added twice, so the edge
\* count of the subgraph never exceeds that of the source graph.
C28_EdgesNotDuplicated ==
    pc = "traced" =>
        /\ \A e \in Range(out.edges) : EdgeCount(out.edges, e) <= EdgeCount(graph.edges, e)
        /\ Len(out.edges) <= Len(graph.edges)

-----------------------------------------------------------------------------
\* the position of a file in the discovery order of build_graph
FileIdx(file) == CHOOSE i \in 1..Len(files) : files[i].path = file

\* the records are in discovery order of their files, then in line order
InEdgeOrder(records) ==
    \A i \in 1..Len(records), j \in 1..Len(records) :
        i < j =>
            \/ FileIdx(records[i].file) < FileIdx(records[j].file)
            \/ /\ records[i].file = records[j].file
               /\ records[i].line <= records[j].line

\* C24: within every bridge, the producers list and the consumers list are
\* each in the order in which the corresponding edges were appended to the
\* graph (discovery order of files, then line order), also for the consumers
\* of an mqtt bridge that come from wildcard subscriptions recorded before
\* the exact subscriptions.
C24_RecordsInEdgeOrder ==
    Built =>
    \A i \in 1..Len(graph.bridges) :
        /\ InEdgeOrder(graph.bridges[i].producers)
        /\ InEdgeOrder(graph.bridges[i].consumers)

-----------------------------------------------------------------------------
\* a step that changes the bridge list is made after the last file and only
\* appends bridges
BridgeStepFrame ==
    graph'.bridges # graph.bridges =>
        /\ idx > Len(files)
        /\ Len(graph'.bridges) > Len(graph.bridges)
        /\ SubSeq(graph'.bridges, 1, Len(graph.bridges)) = graph.bridges
        /\ graph'.nodes = graph.nodes
        /\ graph'.edges = graph.edges
        /\ graph'.adjacency = graph.adjacency
        /\ graph'.reverse_adj = graph.reverse_adj

\* C25: in build_graph the bridge list stays empty until the extractor of
\* the last discovered file has returned, and detect_bridges only appends to
\* the bridge list: it leaves nodes, the edge list and both adjacency maps
\* exactly as they were.
C25_BridgesAppendedLast ==
    /\ [](pc = "parse" => graph.bridges = <<>>)
    /\ [][BridgeStepFrame]_vars

\* detect_bridges has run on the graph of two files or more and found bridges
C25_Witness ==
    /\ pc = "built"
    /\ Len(files) >= 2
    /\ graph.edges # <<>>
    /\ Len(graph.bridges) >= 2

-----------------------------------------------------------------------------
\* the emits edges and the listening edges of a WebSocket event name
EmitEdges(event) ==
    {e \in EdgeSet : e.edge_type = "emits" /\ e.target = "ws:" \o event}

ListenEdges(event) ==
    {e \in EdgeSet : e.edge_type = "subscribes" /\ e.source = "ws:" \o event}

\* every event name emitted or listened to
Events ==
    {SubSeq(e.target, 4, Len(e.target)) :
        e \in {x \in EdgeSet : x.edge_type = "emits" /\ StartsWith(x.target, "ws:")}}
    \cup {SubSeq(e.source, 4, Len(e.source)) :
        e \in {x \in EdgeSet : x.edge_type = "subscribes" /\ StartsWith(x.source, "ws:")}}

\* the files that emit the event and the files of the file nodes that listen
EventFiles(event) ==
    {e.file : e \in EmitEdges(event)}
    \cup {NodeAt(graph, e.target).file : e \in ListenEdges(event)}

\* C26: for every WebSocket event name that is emitted or listened to, a
\* websocket bridge keyed by that name is emitted if and only if the emitting
\* files and the listening files together are at least 2 distinct files; the
\* consumer records carry the file of the listening file node, and an event
\* emitted and listened to in one single file yields no bridge.
C26_WebSocketBridgeIffTwoFiles ==
    Built =>
    /\ \A event \in Events :
          NBridges("websocket", event) =
              (IF Cardinality(EventFiles(event)) >= 2 THEN 1 ELSE 0)
    /\ \A i \in 1..Len(graph.bridges) :
          graph.bridges[i].bridge_type = "websocket" =>
              /\ graph.bridges[i].key \in Events
              /\ Files(graph.bridges[i].consumers) =
                    {NodeAt(graph, e.target).file : e \in ListenEdges(graph.bridges[i].key)}


-----------------------------------------------------------------------------
\* the requests.<method>('<http url>') call sites: file, line number, position
RequestsCalls ==
    {c \in UNION {{<<i, ln, k>> : k \in 1..Len(files[i].content[ln])} :
                     <<i, ln>> \in UNION {{<<i2, l2>> : l2 \in 1..Len(files[i2].content)} :
                                             i2 \in 1..Len(files)}} :
        files[c[1]].content[c[2]][c[3]].kind = "py_requests"}

\* the fetches edges of the line of a call site that lead to its endpoint
FetchesOfCall(c) ==
    LET m == files[c[1]].content[c[2]][c[3]]
    IN  {n \in 1..Len(graph.edges) :
            /\ graph.edges[n].edge_type = "fetches"
            /\ graph.edges[n].file = files[c[1]].path
            /\ graph.edges[n].line = c[2]
            /\ graph.edges[n].target = "http:" \o Upper(m.a) \o ":" \o m.b}

\* the consumer records of the line of a call site in the http bridges
ConsumersOfCall(c) ==
    {p \in UNION {{<<n, r>> : r \in 1..Len(graph.bridges[n].consumers)} :
                     n \in 1..Len(graph.bridges)} :
        /\ graph.bridges[p[1]].bridge_type = "http"
        /\ graph.bridges[p[1]].consumers[p[2]].file = files[c[1]].path
        /\ graph.bridges[p[1]].consumers[p[2]].line = c[2]}

\* the call sites of the line of a call site
CallsOnLine(c) == {d \in RequestsCalls : d[1] = c[1] /\ d[2] = c[2]}

\* C27: each requests.<method>('<http url>') call site on a line of a Python
\* file produces exactly one fetches edge, and therefore exactly one consumer
\* record in the http bridge for that url.
C27_OneFetchPerRequestsCall ==
    Built =>
    \A c \in RequestsCalls :
        /\ Cardinality(FetchesOfCall(c)) = Cardinality(CallsOnLine(c))
        /\ Cardinality(ConsumersOfCall(c)) = Cardinality(CallsOnLine(c))

-----------------------------------------------------------------------------
\* C30: after build_graph no two bridges in the bridge list have the same
\* pair (bridge_type, key): each topic, normalized path, event name and
\* variable name yields at most one bridge, and there is at most one serial
\* bridge.
C30_BridgeKeysUnique ==
    Built =>
    \A i \in 1..Len(graph.bridges), j \in 1..Len(graph.bridges) :
        (/\ graph.bridges[i].bridge_type = graph.bridges[j].bridge_type
         /\ graph.bridges[i].key = graph.bridges[j].key) => i = j

\* two bridges of one type with different keys, one key being published and
\* subscribed
C30_Witness ==
    /\ Built
    /\ \E i \in 1..Len(graph.bridges), j \in 1..Len(graph.bridges) :
          /\ i # j
          /\ graph.bridges[i].bridge_type = "mqtt"
          /\ graph.bridges[j].bridge_type = "mqtt"
          /\ graph.bridges[i].producers # <<>>
          /\ graph.bridges[i].consumers # <<>>

-----------------------------------------------------------------------------
\* the min_size of the file_clusters call that was made
MinSize == history[1][2]

\* C23: for any graph and any min_size, the list returned by
\* file_clusters(min_size) is ordered by size descending: each returned
\* cluster has at least as many files as the cluster that follows it, also
\* after already-seen files have been subtracted during deduplication.
C23_ClustersSizeDescending ==
    pc = "clustered" =>
        \A i \in 1..(Len(out) - 1) : Cardinality(out[i]) >= Cardinality(out[i + 1])

\* C29: for any graph and any min_size >= 1, the clusters returned by
\* file_clusters(min_size) are pairwise disjoint sets of files, each with at
\* least min_size files, and every file in them is the file of some node of
\* the graph.
C29_ClustersDisjoint ==
    (pc = "clustered" /\ MinSize >= 1) =>
        /\ \A i \in 1..Len(out), j \in 1..Len(out) : i # j => out[i] \cap out[j] = {}
        /\ \A i \in 1..Len(out) :
              /\ Cardinality(out[i]) >= MinSize
              /\ out[i] \subseteq {graph.nodes[n].file : n \in 1..Len(graph.nodes)}

\* two components share the file a.js: the second cluster is returned
\* without it
C29_Witness ==
    /\ pc = "clustered"
    /\ MinSize = 1
    /\ Len(out) >= 2
    /\ out[1] = {"a.js", "b.js"}
    /\ out[2] = {"c.js"}
    /\ HasNode(graph, "func:a.js:main")
=============================================================================
